---- MODULE Spec2Model ----
(***************************************************************************)
(* llm-observability: a read-only web dashboard and JSON API over the     *)
(* SQLite log database written by the `llm` tool.                         *)
(*                                                                         *)
(* Every handler is an `async def` without an await in it: it runs to     *)
(* completion against the database it finds.  A handler is therefore one  *)
(* action: it reads db, records the request in req and its outcome in     *)
(* resp, and leaves db alone.  The database is an input: each              *)
(* specification draws it from a bounded set in its initial predicate.    *)
(*                                                                         *)
(* Encoding of SQLite / Python values                                     *)
(*   TEXT columns used only in equality tests (id, model,                 *)
(*     conversation_id) are TLA+ strings; the SQL NULL of such a column   *)
(*     is the string NULLSTR, the absent / empty request parameter is "". *)
(*   prompt / response values are records [k, v]: k is "null", "text" or  *)
(*     "blob" (SQLite stores any type in any column), v the characters.   *)
(*   INTEGER columns are integers, SQL NULL is NULLINT.                   *)
(*   datetime_utc strings are compared as strings by SQLite; they are     *)
(*     modelled by positive integers with the same order, NULL is NULLINT *)
(*     and the absent / empty date parameter is NODATE.                   *)
(***************************************************************************)
EXTENDS Integers, Sequences, FiniteSets, TLC

VARIABLES db, req, resp, os, proc

vars == <<db, req, resp, os, proc>>

(***************************************************************************)
(* Bounds of the model.                                                    *)
(***************************************************************************)
MaxRows   == 2
MaxLimit  == 2
MaxOffset == 2
MaxSlack  == 1

(***************************************************************************)
(* Values.                                                                 *)
(***************************************************************************)
NULLINT == 0 - 1
NULLSTR == "<NULL>"
NODATE  == 0

NullText == [k |-> "null", v |-> <<>>]
Text(s)  == [k |-> "text", v |-> s]
Blob(s)  == [k |-> "blob", v |-> s]

Min(a, b) == IF a <= b THEN a ELSE b
Max(a, b) == IF a >= b THEN a ELSE b

\* Python's s[a:b] for 0 <= a, 0 <= b (both clamped to len(s)).
Slice(s, a, b) == SubSeq(s, Min(a, Len(s)) + 1, Min(b, Len(s)))

(***************************************************************************)
(* The database: the set of tables that exist and the rows of each.        *)
(* like_matches_blobs is the SQLite build the process runs on: LIKE reads  *)
(* a BLOB as text unless built with SQLITE_LIKE_DOESNT_MATCH_BLOBS.        *)
(***************************************************************************)
TableNames == {"responses", "conversations", "tools", "tool_calls",
               "tool_results", "prompt_attachments", "attachments",
               "responses_fts"}

EmptyDb == [tables |-> {},
            responses |-> <<>>, conversations |-> <<>>, tools |-> <<>>,
            tool_calls |-> <<>>, tool_results |-> <<>>,
            prompt_attachments |-> <<>>, attachments |-> <<>>,
            responses_fts |-> <<>>,
            like_matches_blobs |-> FALSE]

\* db.table_names()
table_names(d) == d.tables

Response(rowid, id, model, dt, conv) ==
    [rowid |-> rowid, id |-> id, model |-> model,
     prompt |-> NullText, response |-> NullText, system |-> NullText,
     conversation_id |-> conv, duration_ms |-> NULLINT, datetime_utc |-> dt,
     input_tokens |-> NULLINT, output_tokens |-> NULLINT]

(***************************************************************************)
(* Outcomes of a handler.                                                  *)
(***************************************************************************)
Ok(body)      == [status |-> "ok", body |-> body]
Raised(what)  == [status |-> "error", body |-> what]
\* Mutation: an empty object answered in place of the 404.
NotFound_EmptyObject == [status |-> "ok", body |-> <<>>]
\* raise HTTPException(status_code=404, ...)
NotFound      == [status |-> "404", body |-> "not found"]
NoRequest     == [op |-> "none"]
NoResponse    == [status |-> "none", body |-> "none"]

\* The server takes one request at a time: a handler starts when no request
\* is being served, and Respond hands its outcome to the caller.
\* The request handlers run in a server that has started: the operating
\* system around it and the server process are left as they are.
AlreadyServing == os = "any" /\ proc = [pc |-> "serving"]

Idle == req.op = "none"

Respond ==
    /\ ~Idle
    /\ req' = NoRequest
    /\ resp' = NoResponse
    /\ UNCHANGED <<db, os, proc>>

(***************************************************************************)
(* SQLite and sqlite-utils, as far as the handlers use them.               *)
(***************************************************************************)
RECURSIVE SumSeq(_)
SumSeq(s) == IF s = <<>> THEN 0 ELSE Head(s) + SumSeq(Tail(s))

\* The values of column col over rows, SQL NULLs left out.
NonNull(rows, col) ==
    LET vals == [i \in 1..Len(rows) |-> rows[i][col]]
    IN  SelectSeq(vals, LAMBDA x : x # NULLINT)

\* COALESCE(SUM(col), 0)
SumCol(rows, col) == SumSeq(NonNull(rows, col))

\* MAX(col) and MIN(col): NULL over no non-null value.
RECURSIVE MaxSeq(_)
MaxSeq(s) == IF s = <<>> THEN NULLINT ELSE Max(Head(s), MaxSeq(Tail(s)))
RECURSIVE MinSeq(_)
MinSeq(s) ==
    IF s = <<>> THEN NULLINT
    ELSE IF Tail(s) = <<>> THEN Head(s) ELSE Min(Head(s), MinSeq(Tail(s)))

\* One WHERE clause of the handlers, evaluated on a row with the bound
\* parameters.  A comparison with NULL is not true.
EvalClause(clause, params, row) ==
    CASE clause = "model = :model" ->
            row.model # NULLSTR /\ row.model = params["model"]
      [] clause = "conversation_id = :conversation_id" ->
            /\ row.conversation_id # NULLSTR
            /\ row.conversation_id = params["conversation_id"]
      [] clause = "datetime_utc >= :start_date" ->
            /\ row.datetime_utc # NULLINT
            /\ row.datetime_utc >= params["start_date"]
      [] clause = "datetime_utc <= :end_date" ->
            /\ row.datetime_utc # NULLINT
            /\ row.datetime_utc <= params["end_date"]
      [] clause = "tool_id = :tool_id" -> row.tool_id = params["tool_id"]
      [] clause = "exception IS NOT NULL" -> row.exception # NULLSTR
      [] clause = "duration_ms IS NOT NULL" -> row.duration_ms # NULLINT
      [] clause = "datetime_utc IS NOT NULL" -> row.datetime_utc # NULLINT

\* " AND ".join(where_clauses)
Where(clauses, params, row) ==
    \A i \in 1..Len(clauses) : EvalClause(clauses[i], params, row)

Filter(rows, clauses, params) ==
    SelectSeq(rows, LAMBDA r : Where(clauses, params, r))

\* ORDER BY key DESC: NULL (the smallest value) last, ties in scan order.
RECURSIVE InsertDesc(_, _, _)
InsertDesc(sorted, r, key) ==
    IF sorted = <<>> THEN <<r>>
    ELSE LET n == Len(sorted)
         IN  IF sorted[n][key] >= r[key] THEN Append(sorted, r)
             ELSE Append(InsertDesc(SubSeq(sorted, 1, n - 1), r, key), sorted[n])

RECURSIVE OrderByDesc(_, _)
OrderByDesc(rows, key) ==
    IF rows = <<>> THEN <<>>
    ELSE LET n == Len(rows)
         IN  InsertDesc(OrderByDesc(SubSeq(rows, 1, n - 1), key), rows[n], key)

\* ORDER BY key (ascending): NULL first, ties in scan order.
RECURSIVE InsertAsc(_, _, _)
InsertAsc(sorted, r, key) ==
    IF sorted = <<>> THEN <<r>>
    ELSE LET n == Len(sorted)
         IN  IF sorted[n][key] <= r[key] THEN Append(sorted, r)
             ELSE Append(InsertAsc(SubSeq(sorted, 1, n - 1), r, key), sorted[n])

RECURSIVE OrderByAsc(_, _)
OrderByAsc(rows, key) ==
    IF rows = <<>> THEN <<>>
    ELSE LET n == Len(rows)
         IN  InsertAsc(OrderByAsc(SubSeq(rows, 1, n - 1), key), rows[n], key)

\* LIMIT :limit OFFSET :offset: skip offset rows, then yield up to limit.
RECURSIVE Skip(_, _)
Skip(rows, n) ==
    IF n = 0 \/ rows = <<>> THEN rows ELSE Skip(Tail(rows), n - 1)

RECURSIVE Take(_, _)
Take(rows, n) ==
    IF n = 0 \/ rows = <<>> THEN <<>>
    ELSE <<Head(rows)>> \o Take(Tail(rows), n - 1)

\* Mutation: the offset applied to the rows the limit has already cut.
LimitOffset_LimitFirst(rows, limit, offset) == Skip(Take(rows, limit), offset)

LimitOffset(rows, limit, offset) == Take(Skip(rows, offset), limit)

\* sqlite-utils Table.rows_where(where, where_args): yields nothing for a
\* table that does not exist.
rows_where(d, table, clauses, params) ==
    IF table \notin table_names(d) THEN <<>>
    ELSE Filter(d[table], clauses, params)

\* "x = ?" on an id column of table.
rows_where_eq(d, table, col, val) ==
    IF table \notin table_names(d) THEN <<>>
    ELSE SelectSeq(d[table], LAMBDA r : r[col] = val)

\* tbl LEFT JOIN responses r ON tbl.response_id = r.id, with r.datetime_utc
\* as the only column read from r.
RECURSIVE LeftJoinResponses(_, _)
LeftJoinResponses(rows, responses) ==
    IF rows = <<>> THEN <<>>
    ELSE LET t == Head(rows)
             m == SelectSeq(responses,
                            LAMBDA r : r.id # NULLSTR /\ r.id = t.response_id)
             J(dt) == [c \in DOMAIN t \cup {"datetime_utc"} |->
                          IF c = "datetime_utc" THEN dt ELSE t[c]]
             joined == IF m = <<>> THEN <<J(NULLINT)>>
                       ELSE [i \in 1..Len(m) |-> J(m[i].datetime_utc)]
         IN  joined \o LeftJoinResponses(Tail(rows), responses)

(***************************************************************************)
(* api/responses.py                                                        *)
(***************************************************************************)
\* ResponseSummary(**row): the fields of the pydantic model, the other
\* columns of the row ignored.
ResponseSummary(row) ==
    [id |-> row.id, model |-> row.model, prompt |-> row.prompt,
     response |-> row.response, conversation_id |-> row.conversation_id,
     duration_ms |-> row.duration_ms, datetime_utc |-> row.datetime_utc,
     input_tokens |-> row.input_tokens, output_tokens |-> row.output_tokens]

\* `id: str` and `model: str` are required: a NULL fails validation.
Validates(rows) ==
    \A i \in 1..Len(rows) : rows[i].id # NULLSTR /\ rows[i].model # NULLSTR

\* The where_clauses and params list_responses builds from its filters.
ResponseClauses(model, conversation_id, start_date, end_date) ==
    (IF model # "" THEN <<"model = :model">> ELSE <<>>)
    \o (IF conversation_id # ""
        THEN <<"conversation_id = :conversation_id">> ELSE <<>>)
    \o (IF start_date # NODATE THEN <<"datetime_utc >= :start_date">> ELSE <<>>)
    \o (IF end_date # NODATE THEN <<"datetime_utc <= :end_date">> ELSE <<>>)

ResponseParams(model, conversation_id, start_date, end_date) ==
    [k \in {c \in {"model", "conversation_id", "start_date", "end_date"} :
              \/ c = "model" /\ model # ""
              \/ c = "conversation_id" /\ conversation_id # ""
              \/ c = "start_date" /\ start_date # NODATE
              \/ c = "end_date" /\ end_date # NODATE} |->
        CASE k = "model" -> model
          [] k = "conversation_id" -> conversation_id
          [] k = "start_date" -> start_date
          [] k = "end_date" -> end_date]

\* The total of list_responses: COUNT(*) ... WHERE {where}, or the table's
\* count when there is no clause.
ResponsesTotal(d, clauses, params) ==
    IF clauses # <<>> THEN Len(Filter(d.responses, clauses, params))
    ELSE Len(d.responses)

\* db["responses"].rows_where(where, where_args, order_by="datetime_utc desc",
\* limit, offset)
ResponsesPage(d, clauses, params, limit, offset) ==
    LimitOffset(OrderByDesc(rows_where(d, "responses", clauses, params),
                            "datetime_utc"),
                limit, offset)

list_responses(d, limit, offset, model, conversation_id, start_date, end_date) ==
    IF "responses" \notin table_names(d)
    THEN Ok([items |-> <<>>, total |-> 0, limit |-> limit, offset |-> offset])
    ELSE LET where_clauses ==
                 ResponseClauses(model, conversation_id, start_date, end_date)
             params ==
                 ResponseParams(model, conversation_id, start_date, end_date)
             total == ResponsesTotal(d, where_clauses, params)
             rows  == ResponsesPage(d, where_clauses, params, limit, offset)
         IN  IF ~Validates(rows) THEN Raised("ValidationError")
             ELSE Ok([items |-> [i \in 1..Len(rows) |-> ResponseSummary(rows[i])],
                      total |-> total, limit |-> limit, offset |-> offset])

(***************************************************************************)
(* api/conversations.py                                                    *)
(***************************************************************************)
\* The ids of rows, each once, in scan order: the groups of GROUP BY c.id.
RECURSIVE GroupIds(_, _)
GroupIds(rows, seen) ==
    IF rows = <<>> THEN <<>>
    ELSE IF Head(rows).id \in seen THEN GroupIds(Tail(rows), seen)
    ELSE <<Head(rows).id>> \o GroupIds(Tail(rows), seen \cup {Head(rows).id})

\* SELECT c.id, c.name, c.model, COUNT(r.id), MIN(..), MAX(..), SUMs
\* FROM conversations c LEFT JOIN responses r ON c.id = r.conversation_id
\* GROUP BY c.id: one row per group.
ConversationGroups(d) ==
    LET ids == GroupIds(d.conversations, {})
        Group(id) ==
            LET cs == SelectSeq(d.conversations, LAMBDA c : c.id = id)
                rs == SelectSeq(d.responses,
                                LAMBDA r : /\ r.conversation_id # NULLSTR
                                           /\ r.conversation_id = id)
                ids_r == SelectSeq(rs, LAMBDA r : r.id # NULLSTR)
                n  == Len(cs)
            IN  [id |-> id, name |-> cs[1].name, model |-> cs[1].model,
                 response_count |-> n * Len(ids_r),
                 first_response |-> MinSeq(NonNull(rs, "datetime_utc")),
                 last_response |-> MaxSeq(NonNull(rs, "datetime_utc")),
                 total_input_tokens |-> n * SumCol(rs, "input_tokens"),
                 total_output_tokens |-> n * SumCol(rs, "output_tokens")]
    IN  [i \in 1..Len(ids) |-> Group(ids[i])]

\* The query without its ORDER BY clause: the groups in scan order.
ConversationsPage_Unordered(d, limit, offset) ==
    LimitOffset(ConversationGroups(d), limit, offset)

\* ... ORDER BY last_response DESC NULLS LAST LIMIT :limit OFFSET :offset
ConversationsPage(d, limit, offset) ==
    LimitOffset(OrderByDesc(ConversationGroups(d), "last_response"),
                limit, offset)

\* total = db["conversations"].count
ConversationsTotal(d) == Len(d.conversations)

list_conversations(d, limit, offset) ==
    IF "conversations" \notin table_names(d)
    THEN Ok([items |-> <<>>, total |-> 0, limit |-> limit, offset |-> offset])
    ELSE IF "responses" \notin table_names(d)
    THEN Raised("no such table: responses")
    ELSE Ok([items |-> ConversationsPage(d, limit, offset),
             total |-> ConversationsTotal(d),
             limit |-> limit, offset |-> offset])

(***************************************************************************)
(* api/tools.py                                                            *)
(***************************************************************************)
ToolIdParams(tool_id) == [k \in {"tool_id"} |-> tool_id]

\* ... FROM tool_calls tc LEFT JOIN responses r ON tc.response_id = r.id
\* WHERE tc.tool_id = :tool_id ORDER BY r.datetime_utc DESC LIMIT/OFFSET
ToolCallsPage(d, tool_id, limit, offset) ==
    LimitOffset(
        OrderByDesc(
            Filter(LeftJoinResponses(d.tool_calls, d.responses),
                   <<"tool_id = :tool_id">>, ToolIdParams(tool_id)),
            "datetime_utc"),
        limit, offset)

\* SELECT COUNT(*) FROM tool_calls WHERE tool_id = ?
ToolCallsTotal(d, tool_id) ==
    Len(Filter(d.tool_calls, <<"tool_id = :tool_id">>, ToolIdParams(tool_id)))

get_tool_calls(d, tool_id, limit, offset) ==
    IF "tool_calls" \notin table_names(d)
    THEN Ok([items |-> <<>>, total |-> 0])
    ELSE IF "responses" \notin table_names(d)
    THEN Raised("no such table: responses")
    ELSE Ok([items |-> ToolCallsPage(d, tool_id, limit, offset),
             total |-> ToolCallsTotal(d, tool_id),
             limit |-> limit, offset |-> offset])

\* where_clause of the page query of get_tool_results
ToolResultsWhere(errors_only) ==
    <<"tool_id = :tool_id">>
    \o (IF errors_only THEN <<"exception IS NOT NULL">> ELSE <<>>)

\* Mutation: the count query without the errors_only clause.
ToolResultsCountWhere_NoErrorsOnly(errors_only) == <<"tool_id = :tool_id">>

\* count_where of get_tool_results
ToolResultsCountWhere(errors_only) ==
    <<"tool_id = :tool_id">>
    \o (IF errors_only THEN <<"exception IS NOT NULL">> ELSE <<>>)

ToolResultsPage(d, tool_id, limit, offset, errors_only) ==
    LimitOffset(
        OrderByDesc(
            Filter(LeftJoinResponses(d.tool_results, d.responses),
                   ToolResultsWhere(errors_only), ToolIdParams(tool_id)),
            "datetime_utc"),
        limit, offset)

ToolResultsTotal(d, tool_id, errors_only) ==
    Len(Filter(d.tool_results, ToolResultsCountWhere(errors_only),
               ToolIdParams(tool_id)))

get_tool_results(d, tool_id, limit, offset, errors_only) ==
    IF "tool_results" \notin table_names(d)
    THEN Ok([items |-> <<>>, total |-> 0])
    ELSE IF "responses" \notin table_names(d)
    THEN Raised("no such table: responses")
    ELSE Ok([items |-> ToolResultsPage(d, tool_id, limit, offset, errors_only),
             total |-> ToolResultsTotal(d, tool_id, errors_only),
             limit |-> limit, offset |-> offset])

(***************************************************************************)
(* api/responses.py: get_response, get_response_attachments                *)
(***************************************************************************)
\* ToolCallResponse(**row) and ToolResultResponse(**row)
ToolCallResponse(row) ==
    [id |-> row.id, name |-> row.name, arguments |-> row.arguments,
     tool_call_id |-> row.tool_call_id]

ToolResultResponse(row) ==
    [id |-> row.id, name |-> row.name, output |-> row.output,
     exception |-> row.exception, tool_call_id |-> row.tool_call_id]

\* `if "tool_calls" in db.table_names(): ... rows_where("response_id = ?")`
ToolCallsOf(d, response_id) ==
    IF "tool_calls" \in table_names(d)
    THEN rows_where_eq(d, "tool_calls", "response_id", response_id)
    ELSE <<>>

ToolResultsOf(d, response_id) ==
    IF "tool_results" \in table_names(d)
    THEN rows_where_eq(d, "tool_results", "response_id", response_id)
    ELSE <<>>

get_response(d, response_id) ==
    LET rows == rows_where_eq(d, "responses", "id", response_id)
    IN  IF rows = <<>> THEN NotFound
        ELSE IF ~Validates(<<rows[1]>>) THEN Raised("ValidationError")
        ELSE LET tc == ToolCallsOf(d, response_id)
                 tr == ToolResultsOf(d, response_id)
             IN  Ok([id |-> rows[1].id, model |-> rows[1].model,
                     prompt |-> rows[1].prompt, response |-> rows[1].response,
                     conversation_id |-> rows[1].conversation_id,
                     duration_ms |-> rows[1].duration_ms,
                     datetime_utc |-> rows[1].datetime_utc,
                     input_tokens |-> rows[1].input_tokens,
                     output_tokens |-> rows[1].output_tokens,
                     system |-> rows[1].system,
                     tool_calls |-> [i \in 1..Len(tc) |-> ToolCallResponse(tc[i])],
                     tool_results |->
                         [i \in 1..Len(tr) |-> ToolResultResponse(tr[i])]])

\* Mutation: the content left in the entry.
AttachmentEntry_WithContent(row, link) ==
    [f \in DOMAIN row \cup {"order"} |->
        IF f = "order" THEN link.order ELSE row[f]]

\* att = dict(rows[0]); att.pop("content", None); att["order"] = link["order"]
AttachmentEntry(row, link) ==
    [f \in (DOMAIN row \ {"content"}) \cup {"order"} |->
        IF f = "order" THEN link.order ELSE row[f]]

\* `for link in attachment_links:` the attachment of each link that has one,
\* without its content and with the order of the link.
RECURSIVE LinkedAttachments(_, _)
LinkedAttachments(d, links) ==
    IF links = <<>> THEN <<>>
    ELSE LET rows == rows_where_eq(d, "attachments", "id",
                                   Head(links).attachment_id)
             att  == AttachmentEntry(rows[1], Head(links))
         IN  (IF rows # <<>> THEN <<att>> ELSE <<>>)
             \o LinkedAttachments(d, Tail(links))

\* attachment_links and the sorted attachments built from them
AttachmentsOf(d, response_id) ==
    OrderByAsc(LinkedAttachments(d,
                   rows_where_eq(d, "prompt_attachments", "response_id",
                                 response_id)),
               "order")

get_response_attachments(d, response_id) ==
    IF "prompt_attachments" \notin table_names(d) THEN Ok(<<>>)
    ELSE IF rows_where_eq(d, "prompt_attachments", "response_id",
                          response_id) = <<>>
    THEN Ok(<<>>)
    ELSE Ok(AttachmentsOf(d, response_id))

(***************************************************************************)
(* api/conversations.py: get_conversation                                  *)
(***************************************************************************)
\* ConversationResponse(**row)
ConversationResponse(row) ==
    [id |-> row.id, model |-> row.model, prompt |-> row.prompt,
     response |-> row.response, datetime_utc |-> row.datetime_utc,
     duration_ms |-> row.duration_ms, input_tokens |-> row.input_tokens,
     output_tokens |-> row.output_tokens]

\* db["responses"].rows_where("conversation_id = ?", [conversation_id],
\* order_by="datetime_utc")
ResponsesOfConversation(d, conversation_id) ==
    OrderByAsc(rows_where_eq(d, "responses", "conversation_id",
                             conversation_id),
               "datetime_utc")

get_conversation(d, conversation_id) ==
    IF "conversations" \notin table_names(d) THEN NotFound
    ELSE LET rows == rows_where_eq(d, "conversations", "id", conversation_id)
         IN  IF rows = <<>> THEN NotFound
             ELSE LET rs == IF "responses" \in table_names(d)
                            THEN ResponsesOfConversation(d, conversation_id)
                            ELSE <<>>
                  IN  IF ~Validates(rs) THEN Raised("ValidationError")
                      ELSE Ok([id |-> rows[1].id, name |-> rows[1].name,
                               model |-> rows[1].model,
                               responses |-> [i \in 1..Len(rs) |->
                                                 ConversationResponse(rs[i])]])

(***************************************************************************)
(* api/tools.py: list_tools                                                *)
(***************************************************************************)
\* COALESCE(tc.call_count, 0) and its like: the rows of table whose tool_id
\* is the tool's, those with an exception only when errors is set.
ToolRowCount(d, table, tool_id, errors) ==
    Len(SelectSeq(d[table],
                  LAMBDA r : /\ r.tool_id = tool_id
                             /\ errors => r.exception # NULLSTR))

\* ToolDefinition(**dict(zip(columns, row)))
ToolDefinition(t, call_count, result_count, error_count) ==
    [id |-> t.id, name |-> t.name, description |-> t.description,
     input_schema |-> t.input_schema, plugin |-> t.plugin,
     call_count |-> call_count, result_count |-> result_count,
     error_count |-> error_count]

\* The rows of the query list_tools picks for the tables that exist.
ToolRows(d) ==
    LET has_tool_calls   == "tool_calls" \in table_names(d)
        has_tool_results == "tool_results" \in table_names(d)
        Calls(t) == ToolRowCount(d, "tool_calls", t.id, FALSE)
    IN  IF has_tool_calls /\ has_tool_results
        THEN OrderByDesc(
                 [i \in 1..Len(d.tools) |->
                     ToolDefinition(d.tools[i], Calls(d.tools[i]),
                         ToolRowCount(d, "tool_results", d.tools[i].id, FALSE),
                         ToolRowCount(d, "tool_results", d.tools[i].id, TRUE))],
                 "call_count")
        ELSE IF has_tool_calls
        THEN OrderByDesc(
                 [i \in 1..Len(d.tools) |->
                     ToolDefinition(d.tools[i], Calls(d.tools[i]), 0, 0)],
                 "call_count")
        ELSE [i \in 1..Len(d.tools) |-> ToolDefinition(d.tools[i], 0, 0, 0)]

\* Mutation: the query sent without asking whether the tools table exists.
list_tools_Unchecked(d) ==
    IF "tools" \notin table_names(d) THEN Raised("no such table: tools")
    ELSE Ok([items |-> ToolRows(d), total |-> Len(ToolRows(d))])

list_tools(d) ==
    IF "tools" \notin table_names(d) THEN Ok([items |-> <<>>, total |-> 0])
    ELSE Ok([items |-> ToolRows(d), total |-> Len(ToolRows(d))])

(***************************************************************************)
(* Databases and requests of the paginated list operations.                *)
(***************************************************************************)
RId(i) == "r" \o ToString(i)
CId(i) == "c" \o ToString(i)

\* All sequences of 0..MaxRows rows, row i built by Make(i, k) from a kind k.
SeqsOf(Kinds, Make(_, _)) ==
    UNION {{[i \in 1..n |-> Make(i, f[i])] : f \in [1..n -> Kinds]} :
           n \in 0..MaxRows}

Times == {NULLINT, 1, 2}

ResponseKinds ==
    {[model |-> mc[1], conv |-> mc[2], dt |-> t] :
        mc \in {<<"m1", "c1">>, <<"m2", "c1">>, <<"m1", NULLSTR>>}, t \in Times}

MakeResponse(i, k) == Response(i, RId(i), k.model, k.dt, k.conv)

Conversation(i) == [id |-> CId(i), name |-> NULLSTR, model |-> "m1"]

ToolCall(i, tool_id, response_id) ==
    [id |-> i, response_id |-> response_id, tool_id |-> tool_id,
     name |-> "tool", arguments |-> "{}", tool_call_id |-> NULLSTR]

ToolResult(i, tool_id, response_id, exception) ==
    [id |-> i, response_id |-> response_id, tool_id |-> tool_id,
     name |-> "tool", output |-> "out", exception |-> exception,
     tool_call_id |-> NULLSTR]

ToolIds == {1, 2}

\* Two logged responses for the tool rows to point at; "r9" points nowhere.
TwoResponses == <<Response(1, "r1", "m1", 1, NULLSTR),
                  Response(2, "r2", "m1", 2, NULLSTR)>>

\* Only the responses table, any rows.
ResponsesDbs ==
    {[EmptyDb EXCEPT !.tables = {"responses"}, !.responses = rs] :
        rs \in SeqsOf(ResponseKinds, MakeResponse)}

\* Conversations c1..cn and responses that belong to c1, c2 or to none.
ConversationsDbs ==
    {[EmptyDb EXCEPT !.tables = {"responses", "conversations"},
                     !.responses = rs,
                     !.conversations = [i \in 1..n |-> Conversation(i)]] :
        n \in 0..MaxRows,
        rs \in SeqsOf({[model |-> "m1", conv |-> c, dt |-> t] :
                          c \in {"c1", "c2"}, t \in {NULLINT, 1}},
                      MakeResponse)}

ToolCallsDbs ==
    {[EmptyDb EXCEPT !.tables = {"responses", "tools", "tool_calls"},
                     !.responses = TwoResponses,
                     !.tool_calls = tc] :
        tc \in SeqsOf(ToolIds \X {"r1", "r2", "r9"},
                      LAMBDA i, k : ToolCall(i, k[1], k[2]))}

ToolResultsDbs ==
    {[EmptyDb EXCEPT !.tables = {"responses", "tools", "tool_results"},
                     !.responses = TwoResponses,
                     !.tool_results = tr] :
        tr \in SeqsOf(ToolIds \X {"r1", "r2"} \X {NULLSTR, "boom"},
                      LAMBDA i, k : ToolResult(i, k[1], k[2], k[3]))}

Limits  == 1..MaxLimit
Offsets == 0..MaxOffset

\* The filter combinations a request to /api/responses is drawn from:
\* <<model, conversation_id, start_date, end_date>>.
FilterChoices ==
    {<<"", "", NODATE, NODATE>>, <<"m1", "", NODATE, NODATE>>,
     <<"", "c1", NODATE, NODATE>>, <<"", "", 2, NODATE>>,
     <<"", "", NODATE, 1>>, <<"m1", "c1", 1, 2>>, <<"m2", "", 1, 1>>}

InitPaging ==
    /\ db \in {EmptyDb} \cup ResponsesDbs \cup ConversationsDbs
                \cup ToolCallsDbs \cup ToolResultsDbs
    /\ req = NoRequest
    /\ resp = NoResponse
    /\ AlreadyServing

ListResponses ==
    /\ Idle
    /\ \E limit \in Limits, offset \in Offsets, f \in FilterChoices :
        /\ req' = [op |-> "list_responses", limit |-> limit, offset |-> offset,
                   model |-> f[1], conversation_id |-> f[2],
                   start_date |-> f[3], end_date |-> f[4]]
        /\ resp' = list_responses(db, limit, offset, f[1], f[2], f[3], f[4])
        /\ UNCHANGED <<db, os, proc>>

ListConversations ==
    /\ Idle
    /\ \E limit \in Limits, offset \in Offsets :
        /\ req' = [op |-> "list_conversations", limit |-> limit,
                   offset |-> offset]
        /\ resp' = list_conversations(db, limit, offset)
        /\ UNCHANGED <<db, os, proc>>

GetToolCalls ==
    /\ Idle
    /\ \E tool_id \in ToolIds, limit \in Limits, offset \in Offsets :
        /\ req' = [op |-> "get_tool_calls", tool_id |-> tool_id,
                   limit |-> limit, offset |-> offset]
        /\ resp' = get_tool_calls(db, tool_id, limit, offset)
        /\ UNCHANGED <<db, os, proc>>

GetToolResults ==
    /\ Idle
    /\ \E tool_id \in ToolIds, limit \in Limits, offset \in Offsets,
       errors_only \in BOOLEAN :
        /\ req' = [op |-> "get_tool_results", tool_id |-> tool_id,
                   limit |-> limit, offset |-> offset,
                   errors_only |-> errors_only]
        /\ resp' = get_tool_results(db, tool_id, limit, offset, errors_only)
        /\ UNCHANGED <<db, os, proc>>

NextPaging ==
    \/ ListResponses
    \/ ListConversations
    \/ GetToolCalls
    \/ GetToolResults
    \/ Respond

SpecPaging == InitPaging /\ [][NextPaging]_vars

(***************************************************************************)
(* Properties of the paginated list operations.                            *)
(***************************************************************************)
\* The filters of the request in req, read off the request itself.
PassesFilters(r) ==
    /\ req.model = "" \/ r.model = req.model
    /\ req.conversation_id = "" \/ r.conversation_id = req.conversation_id
    /\ \/ req.start_date = NODATE
       \/ r.datetime_utc # NULLINT /\ r.datetime_utc >= req.start_date
    /\ \/ req.end_date = NODATE
       \/ r.datetime_utc # NULLINT /\ r.datetime_utc <= req.end_date

\* a comes before b in "datetime descending" (equal datetimes in rowid order)
ComesBefore(a, b) ==
    \/ a.datetime_utc > b.datetime_utc
    \/ a.datetime_utc = b.datetime_utc /\ a.rowid < b.rowid

\* C1: list_responses never fails on a valid (limit, offset); it returns at
\* most `limit` items, as many as positions [offset, offset+limit) of the
\* filtered rows hold, and the item at place p of the page is the filtered row
\* that exactly offset + p - 1 filtered rows precede in datetime-descending
\* order.  An offset at or past the end gives the empty list.
C1_PageIsSlice ==
    req.op = "list_responses" =>
        /\ resp.status = "ok"
        /\ LET items == resp.body.items
               M == {i \in 1..Len(db.responses) : PassesFilters(db.responses[i])}
               Rank(i) == Cardinality({j \in M : ComesBefore(db.responses[j],
                                                             db.responses[i])})
           IN  /\ Len(items) <= req.limit
               /\ Len(items) = Max(0, Min(req.limit, Cardinality(M) - req.offset))
               /\ \A p \in 1..Len(items) :
                     \E i \in M : /\ Rank(i) = req.offset + p - 1
                                  /\ items[p] = ResponseSummary(db.responses[i])

\* A filtered second page: a model filter, a positive offset, a full page.
C1_Witness ==
    /\ req.op = "list_responses"
    /\ resp.status = "ok"
    /\ req.model # ""
    /\ req.offset >= 1
    /\ Len(resp.body.items) = req.limit
    /\ resp.body.total > req.offset

\* More rows than any query of the database in db yields.
NoLimit == (Len(db.responses) + 1)
           * (Len(db.conversations) + Len(db.tool_calls)
              + Len(db.tool_results) + 1)

\* C2: the total every paginated list operation reports is the number of
\* rows its page query yields without LIMIT/OFFSET.
C2_TotalCountsPageQuery ==
    resp.status = "ok" =>
        /\ req.op = "list_responses" =>
              resp.body.total =
                 Len(ResponsesPage(db,
                        ResponseClauses(req.model, req.conversation_id,
                                        req.start_date, req.end_date),
                        ResponseParams(req.model, req.conversation_id,
                                       req.start_date, req.end_date),
                        NoLimit, 0))
        /\ req.op = "list_conversations" =>
              resp.body.total = Len(ConversationsPage(db, NoLimit, 0))
        /\ req.op = "get_tool_calls" =>
              resp.body.total = Len(ToolCallsPage(db, req.tool_id, NoLimit, 0))
        /\ req.op = "get_tool_results" =>
              resp.body.total =
                 Len(ToolResultsPage(db, req.tool_id, NoLimit, 0,
                                     req.errors_only))

\* errors_only asked of a tool that has results with and without an
\* exception, the page shorter than the total.
C2_Witness ==
    /\ req.op = "get_tool_results"
    /\ resp.status = "ok"
    /\ req.errors_only
    /\ resp.body.total >= 1
    /\ Len(resp.body.items) < resp.body.total
    /\ \E i \in 1..Len(db.tool_results) :
          /\ db.tool_results[i].tool_id = req.tool_id
          /\ db.tool_results[i].exception = NULLSTR

(***************************************************************************)
(* Text: a Python str is the sequence of its characters.                   *)
(***************************************************************************)
\* str.lower(), character by character
LowerChar(c) ==
    CASE c = "A" -> "a"
      [] c = "B" -> "b"
      [] OTHER -> c

Lower(s) == [i \in 1..Len(s) |-> LowerChar(s[i])]

\* s.startswith(q, at), at counted from 0
StartsWithAt(s, q, at) ==
    /\ at + Len(q) <= Len(s)
    /\ \A i \in 1..Len(q) : s[at + i] = q[i]

\* s.find(q): the lowest index (from 0) where q occurs in s, or -1.
Find(s, q) ==
    LET at == {i \in 0..(Len(s) - Len(q)) : StartsWithAt(s, q, i)}
    IN  IF at = {} THEN 0 - 1
        ELSE CHOOSE i \in at : \A j \in at : i <= j

\* s.replace(old, new) for a one-character old
RECURSIVE Replace(_, _, _)
Replace(s, old, new) ==
    IF s = <<>> THEN <<>>
    ELSE (IF Head(s) = old THEN new ELSE <<Head(s)>>)
         \o Replace(Tail(s), old, new)

Ellipsis == <<".", ".", ".">>

(***************************************************************************)
(* create_snippet, api/search.py and views/search.py                       *)
(***************************************************************************)
SnippetBefore    == 50
SnippetAfter     == 150
DefaultMaxLength == 200

\* Mutation: the leading ellipsis also for a window that starts at 0, and the
\* text cut one character late when the query is not found.
create_snippet_Off(text, query, max_length) ==
    IF text = <<>> THEN <<>>
    ELSE LET pos == Find(Lower(text), Lower(query))
         IN  IF pos = 0 - 1
             THEN IF Len(text) > max_length
                  THEN Slice(text, 0, max_length + 1) \o Ellipsis
                  ELSE text
             ELSE LET start == Max(0, pos - SnippetBefore)
                      end   == Min(Len(text), pos + Len(query) + SnippetAfter)
                  IN  (IF start >= 0 THEN Ellipsis ELSE <<>>)
                      \o Slice(text, start, end)
                      \o (IF end < Len(text) THEN Ellipsis ELSE <<>>)

\* api/search.py
create_snippet(text, query, max_length) ==
    IF text = <<>> THEN <<>>
    ELSE LET lower_text  == Lower(text)
             lower_query == Lower(query)
             pos == Find(lower_text, lower_query)
         IN  IF pos = 0 - 1
             THEN IF Len(text) > max_length
                  THEN Slice(text, 0, max_length) \o Ellipsis
                  ELSE text
             ELSE LET start == Max(0, pos - SnippetBefore)
                      end   == Min(Len(text), pos + Len(query) + SnippetAfter)
                      snippet == Slice(text, start, end)
                  IN  (IF start > 0 THEN Ellipsis ELSE <<>>)
                      \o snippet
                      \o (IF end < Len(text) THEN Ellipsis ELSE <<>>)

\* views/search.py
view_create_snippet(text, query, max_length) ==
    IF text = <<>> THEN <<>>
    ELSE LET lower_text  == Lower(text)
             lower_query == Lower(query)
             pos == Find(lower_text, lower_query)
         IN  IF pos = 0 - 1
             THEN IF Len(text) > max_length
                  THEN Slice(text, 0, max_length) \o Ellipsis
                  ELSE text
             ELSE LET start == Max(0, pos - SnippetBefore)
                      end   == Min(Len(text), pos + Len(query) + SnippetAfter)
                      snippet == Slice(text, start, end)
                  IN  (IF start > 0 THEN Ellipsis ELSE <<>>)
                      \o snippet
                      \o (IF end < Len(text) THEN Ellipsis ELSE <<>>)

(***************************************************************************)
(* SQLite LIKE and FTS5 MATCH, as the search queries use them.             *)
(***************************************************************************)
\* text LIKE pattern ESCAPE '\': % any run, _ any one character, the
\* character after the escape character itself; ASCII case ignored.  An
\* escape character that ends the pattern matches nothing.
RECURSIVE Like(_, _)
Like(pattern, text) ==
    IF pattern = <<>> THEN text = <<>>
    ELSE LET c == Head(pattern)
         IN  IF c = "%"
             THEN \E k \in 0..Len(text) :
                     Like(Tail(pattern), SubSeq(text, k + 1, Len(text)))
             ELSE IF c = "\\"
             THEN /\ Len(pattern) >= 2
                  /\ text # <<>>
                  /\ LowerChar(pattern[2]) = LowerChar(Head(text))
                  /\ Like(SubSeq(pattern, 3, Len(pattern)), Tail(text))
             ELSE IF c = "_"
             THEN text # <<>> /\ Like(Tail(pattern), Tail(text))
             ELSE /\ text # <<>>
                  /\ LowerChar(c) = LowerChar(Head(text))
                  /\ Like(Tail(pattern), Tail(text))

\* column LIKE :pattern on a stored value: NULL is not like anything, a BLOB
\* is read as text or matches nothing, as SQLite was built.
ValueLike(d, val, pattern) ==
    /\ val.k # "null"
    /\ val.k = "blob" => d.like_matches_blobs
    /\ Like(pattern, val.v)

\* An SQL string literal, read from the character after its opening quote:
\* '' stands for one quote, a single ' closes the literal.  rest is what
\* follows the closing quote.
RECURSIVE SqlString(_, _)
SqlString(s, acc) ==
    IF s = <<>> THEN [closed |-> FALSE, value |-> acc, rest |-> <<>>]
    ELSE IF Head(s) # "'" THEN SqlString(Tail(s), Append(acc, Head(s)))
    ELSE IF Len(s) >= 2 /\ s[2] = "'"
    THEN SqlString(SubSeq(s, 3, Len(s)), Append(acc, "'"))
    ELSE [closed |-> TRUE, value |-> acc, rest |-> Tail(s)]

\* The literal '"{safe_query}"' the indexed queries splice into their SQL.
\* The statement is the intended one only if the literal ends at its own
\* closing quote; text left over after an early close is no SQL (the
\* characters of the model cannot open a comment), and SQLite raises.
MatchLiteral(safe_query) ==
    SqlString(<<"\"">> \o safe_query \o <<"\"">> \o <<"'">>, <<>>)

MatchLiteralOk(safe_query) ==
    MatchLiteral(safe_query).closed /\ MatchLiteral(safe_query).rest = <<>>

\* An FTS5 string "...": "" stands for one double quote.
RECURSIVE Fts5String(_)
Fts5String(s) ==
    IF s = <<>> THEN <<>>
    ELSE IF Head(s) = "\"" /\ Len(s) >= 2 /\ s[2] = "\""
    THEN <<"\"">> \o Fts5String(SubSeq(s, 3, Len(s)))
    ELSE <<Head(s)>> \o Fts5String(Tail(s))

\* The phrase of the MATCH expression: the literal's value without its outer
\* double quotes.
MatchPhrase(safe_query) ==
    LET v == MatchLiteral(safe_query).value
    IN  Fts5String(SubSeq(v, 2, Len(v) - 1))

\* The unicode61 tokenizer: maximal runs of letters, case folded.
Letters == {"a", "b", "A", "B", "x", "y", "z"}

RECURSIVE Tokens(_, _)
Tokens(s, cur) ==
    LET flush == IF cur = <<>> THEN <<>> ELSE <<cur>>
    IN  IF s = <<>> THEN flush
        ELSE IF Head(s) \in Letters
        THEN Tokens(Tail(s), Append(cur, LowerChar(Head(s))))
        ELSE flush \o Tokens(Tail(s), <<>>)

\* A phrase matches a text in which its tokens follow one another; a phrase
\* without a token matches nothing.
PhraseIn(phrase, text) ==
    LET qt == Tokens(phrase, <<>>)
        tt == Tokens(text, <<>>)
    IN  /\ qt # <<>>
        /\ \E i \in 0..(Len(tt) - Len(qt)) :
              \A k \in 1..Len(qt) : tt[i + k] = qt[k]

\* responses_fts MATCH '"phrase"' on a row of the index
FtsMatch(f, phrase) == PhraseIn(phrase, f.prompt) \/ PhraseIn(phrase, f.response)

\* responses r JOIN responses_fts fts ON r.rowid = fts.rowid WHERE ... MATCH
FtsJoin(d, phrase) ==
    SelectSeq(d.responses,
              LAMBDA r : \E i \in 1..Len(d.responses_fts) :
                            /\ d.responses_fts[i].rowid = r.rowid
                            /\ FtsMatch(d.responses_fts[i], phrase))

\* WHERE prompt LIKE :pattern ESCAPE '\' OR response LIKE :pattern ESCAPE '\'
LikeRows(d, like_pattern) ==
    SelectSeq(d.responses,
              LAMBDA r : \/ ValueLike(d, r.prompt, like_pattern)
                         \/ ValueLike(d, r.response, like_pattern))

\* `create_snippet(row[i], q) if row[i] else None`: nothing for NULL and for
\* an empty value.
Truthy(val) == val.k # "null" /\ val.v # <<>>

\* create_snippet calls str methods with a str argument: on the bytes of a
\* BLOB, find() raises TypeError.
SnippetRaises(val) == Truthy(val) /\ val.k = "blob"

(***************************************************************************)
(* api/search.py: search, _search_fts, _search_like                        *)
(***************************************************************************)
\* What a search handler returns: its outcome and the attempts it made.
Searched(outcome, attempts) ==
    [status |-> outcome.status, body |-> outcome.body, attempts |-> attempts]

\* SearchResult(id=row[0], ..., prompt_snippet=..., response_snippet=...)
SearchResult(row, query) ==
    [id |-> row.id, model |-> row.model, prompt |-> row.prompt,
     response |-> row.response, datetime_utc |-> row.datetime_utc,
     conversation_id |-> row.conversation_id,
     prompt_snippet |->
         IF Truthy(row.prompt)
         THEN Text(create_snippet(row.prompt.v, query, DefaultMaxLength))
         ELSE NullText,
     response_snippet |->
         IF Truthy(row.response)
         THEN Text(create_snippet(row.response.v, query, DefaultMaxLength))
         ELSE NullText]

\* Building the SearchResult of a row raises: create_snippet on a BLOB, or
\* the validation of `id: str`, `model: str`.
SearchResultRaises(row) ==
    \/ SnippetRaises(row.prompt)
    \/ SnippetRaises(row.response)
    \/ row.id = NULLSTR
    \/ row.model = NULLSTR

\* safe_query = query.replace('"', '""')
FtsSafeQuery(query) == Replace(query, "\"", <<"\"", "\"">>)

\* SELECT COUNT(*) FROM responses_fts WHERE responses_fts MATCH '"{safe_query}"'
FtsTotal(d, safe_query) ==
    Len(SelectSeq(d.responses_fts,
                  LAMBDA f : FtsMatch(f, MatchPhrase(safe_query))))

\* SELECT ... FROM responses r JOIN responses_fts fts ON r.rowid = fts.rowid
\* WHERE responses_fts MATCH '"{safe_query}"'
\* ORDER BY r.datetime_utc DESC LIMIT :limit OFFSET :offset
FtsPage(d, safe_query, limit, offset) ==
    LimitOffset(OrderByDesc(FtsJoin(d, MatchPhrase(safe_query)), "datetime_utc"),
                limit, offset)

_search_fts(d, query, limit, offset) ==
    LET safe_query == FtsSafeQuery(query)
    IN  IF ~MatchLiteralOk(safe_query) \/ "responses_fts" \notin table_names(d)
        THEN Raised("OperationalError")
        ELSE IF "responses" \notin table_names(d)
        THEN Raised("no such table: responses")
        ELSE LET total == FtsTotal(d, safe_query)
                 rows  == FtsPage(d, safe_query, limit, offset)
             IN  IF \E i \in 1..Len(rows) : SearchResultRaises(rows[i])
                 THEN Raised("TypeError")
                 ELSE Ok([query |-> query,
                          results |-> [i \in 1..Len(rows) |->
                                          SearchResult(rows[i], query)],
                          total |-> total, limit |-> limit, offset |-> offset])

\* safe_query = query.replace("%", "\\%").replace("_", "\\_")
\* like_pattern = f"%{safe_query}%"
LikePattern(query) ==
    <<"%">>
    \o Replace(Replace(query, "%", <<"\\", "%">>), "_", <<"\\", "_">>)
    \o <<"%">>

\* SELECT COUNT(*) FROM responses WHERE prompt LIKE ... OR response LIKE ...
LikeTotal(d, like_pattern) == Len(LikeRows(d, like_pattern))

\* SELECT ... WHERE ... ORDER BY datetime_utc DESC LIMIT :limit OFFSET :offset
LikePage(d, like_pattern, limit, offset) ==
    LimitOffset(OrderByDesc(LikeRows(d, like_pattern), "datetime_utc"),
                limit, offset)

_search_like(d, query, limit, offset) ==
    LET like_pattern == LikePattern(query)
    IN  IF "responses" \notin table_names(d)
        THEN Raised("no such table: responses")
        ELSE LET total == LikeTotal(d, like_pattern)
                 rows  == LikePage(d, like_pattern, limit, offset)
             IN  IF \E i \in 1..Len(rows) : SearchResultRaises(rows[i])
                 THEN Raised("TypeError")
                 ELSE Ok([query |-> query,
                          results |-> [i \in 1..Len(rows) |->
                                          SearchResult(rows[i], query)],
                          total |-> total, limit |-> limit, offset |-> offset])

\* Mutation: a failure of the fallback answered as an empty result.
search_EmptyOnFailure(d, q, limit, offset) ==
    LET fallback == _search_like(d, q, limit, offset)
    IN  Searched(IF fallback.status = "error"
                 THEN Ok([query |-> q, results |-> <<>>, total |-> 0,
                          limit |-> limit, offset |-> offset])
                 ELSE fallback,
                 <<"like">>)

search(d, q, limit, offset) ==
    IF "responses_fts" \notin table_names(d)
    THEN Searched(_search_like(d, q, limit, offset), <<"like">>)
    ELSE LET indexed == _search_fts(d, q, limit, offset)
         IN  IF indexed.status = "error"
             THEN Searched(_search_like(d, q, limit, offset), <<"fts", "like">>)
             ELSE Searched(indexed, <<"fts">>)

(***************************************************************************)
(* views/search.py: search_page                                            *)
(***************************************************************************)
\* The dict search_page appends for a row.
ViewResult(row, q) ==
    [id |-> row.id, model |-> row.model, prompt |-> row.prompt,
     response |-> row.response, datetime_utc |-> row.datetime_utc,
     conversation_id |-> row.conversation_id,
     prompt_snippet |->
         IF Truthy(row.prompt)
         THEN Text(view_create_snippet(row.prompt.v, q, DefaultMaxLength))
         ELSE NullText,
     response_snippet |->
         IF Truthy(row.response)
         THEN Text(view_create_snippet(row.response.v, q, DefaultMaxLength))
         ELSE NullText]

\* Building the dict of a row raises: create_snippet on a BLOB.
ViewResultRaises(row) == SnippetRaises(row.prompt) \/ SnippetRaises(row.response)

\* `for row in rows: results.append({...})`: what the loop has appended when
\* it ends or raises.
RECURSIVE Appended(_, _)
Appended(rows, q) ==
    IF rows = <<>> \/ ViewResultRaises(Head(rows)) THEN <<>>
    ELSE <<ViewResult(Head(rows), q)>> \o Appended(Tail(rows), q)

\* total_pages = (total + limit - 1) // limit if total > 0 else 0
TotalPages(total, limit) ==
    IF total > 0 THEN (total + limit - 1) \div limit ELSE 0

SearchContext(q, results, total, page, limit) ==
    [query |-> q, results |-> results, total |-> total, page |-> page,
     limit |-> limit, total_pages |-> TotalPages(total, limit)]

\* The `try:` block: total and results as it leaves them, and whether it
\* raised.
ViewFtsAttempt(d, q, limit, offset) ==
    LET safe_query == FtsSafeQuery(q)
    IN  IF ~MatchLiteralOk(safe_query)
        THEN [raised |-> TRUE, total |-> 0, results |-> <<>>]
        ELSE LET rows == FtsPage(d, safe_query, limit, offset)
             IN  [raised  |-> \E i \in 1..Len(rows) : ViewResultRaises(rows[i]),
                  total   |-> FtsTotal(d, safe_query),
                  results |-> Appended(rows, q)]

\* The `if not use_fts:` block, entered with the results list as it stands.
ViewLikeSearch(d, q, page, limit, offset, results) ==
    LET like_pattern == LikePattern(q)
        rows == LikePage(d, like_pattern, limit, offset)
    IN  IF \E i \in 1..Len(rows) : ViewResultRaises(rows[i])
        THEN Raised("TypeError")
        ELSE Ok(SearchContext(q, results \o Appended(rows, q),
                              LikeTotal(d, like_pattern), page, limit))

search_page(d, q, page, limit) ==
    IF q = <<>> \/ "responses" \notin table_names(d)
    THEN Searched(Ok(SearchContext(q, <<>>, 0, page, limit)), <<>>)
    ELSE LET offset == (page - 1) * limit
         IN  IF "responses_fts" \notin table_names(d)
             THEN Searched(ViewLikeSearch(d, q, page, limit, offset, <<>>),
                           <<"like">>)
             ELSE LET fts == ViewFtsAttempt(d, q, limit, offset)
                  IN  IF fts.raised
                      THEN Searched(ViewLikeSearch(d, q, page, limit, offset,
                                                   fts.results),
                                    <<"fts", "like">>)
                      ELSE Searched(Ok(SearchContext(q, fts.results, fts.total,
                                                     page, limit)),
                                    <<"fts">>)

(***************************************************************************)
(* The search operations over every database of a small domain: rows with  *)
(* text, NULL and BLOB prompts, a full-text index that may be absent and    *)
(* may hold a row for a rowid the responses table does not have.           *)
(***************************************************************************)
MaxPage == 2

SearchText  == <<"a", "b">>
SearchText2 == <<"A", "_", "b", "%">>

SearchKinds == {"prompt", "wild", "blob", "response"}

SearchRow(i, k) ==
    [Response(i, RId(i), "m1", i, NULLSTR) EXCEPT
        !.prompt   = CASE k = "prompt" -> Text(SearchText)
                       [] k = "wild"   -> Text(SearchText2)
                       [] k = "blob"   -> Blob(SearchText)
                       [] OTHER        -> NullText,
        !.response = IF k = "response" THEN Text(SearchText) ELSE NullText]

\* The row the index triggers write for a response row.
IndexRow(r) == [rowid |-> r.rowid, prompt |-> r.prompt.v, response |-> r.response.v]

\* A row of the index whose rowid no response row has.
OrphanIndexRow == [rowid |-> 9, prompt |-> SearchText, response |-> <<>>]

SearchRows == SeqsOf(SearchKinds, SearchRow)

SearchDbs ==
    { [EmptyDb EXCEPT !.tables = {"responses"}, !.responses = rows,
                      !.like_matches_blobs = lb] :
        rows \in SearchRows, lb \in BOOLEAN }
    \cup
    { [EmptyDb EXCEPT !.tables = {"responses", "responses_fts"},
                      !.responses = rows,
                      !.responses_fts =
                          [i \in 1..Len(rows) |-> IndexRow(rows[i])] \o orphan,
                      !.like_matches_blobs = lb] :
        rows \in SearchRows, lb \in BOOLEAN,
        orphan \in {<<>>, <<OrphanIndexRow>>} }

SearchQueries ==
    {<<"a", "b">>, <<"A">>, <<"%">>, <<"_">>, <<"\\">>, <<"'">>, <<"\"">>}

Pages == 1..MaxPage

InitSearch ==
    /\ db \in SearchDbs
    /\ req = NoRequest
    /\ resp = NoResponse
    /\ AlreadyServing

\* GET /api/search?q=..&limit=..&offset=..  (q has min_length=1)
Search ==
    /\ Idle
    /\ \E q \in SearchQueries, limit \in Limits, offset \in Offsets :
          /\ req' = [op |-> "search", q |-> q, limit |-> limit, offset |-> offset]
          /\ resp' = search(db, q, limit, offset)
    /\ UNCHANGED <<db, os, proc>>

\* GET /search?q=..&page=..&limit=..
SearchPage ==
    /\ Idle
    /\ \E q \in SearchQueries \cup {<<>>}, page \in Pages, limit \in Limits :
          /\ req' = [op |-> "search_page", q |-> q, page |-> page, limit |-> limit]
          /\ resp' = search_page(db, q, page, limit)
    /\ UNCHANGED <<db, os, proc>>

NextSearch ==
    \/ Search
    \/ SearchPage
    \/ Respond

SpecSearch == InitSearch /\ [][NextSearch]_vars

SearchResponseFields == {"query", "results", "total", "limit", "offset"}

SearchResultFields ==
    {"id", "model", "prompt", "response", "datetime_utc", "conversation_id",
     "prompt_snippet", "response_snippet"}

\* The responses the result query of the path taken matches when it runs
\* without LIMIT and OFFSET.
PathMatches ==
    IF resp.attempts = <<"fts">>
    THEN {i \in 1..Len(db.responses) :
            \E j \in 1..Len(db.responses_fts) :
               /\ db.responses_fts[j].rowid = db.responses[i].rowid
               /\ FtsMatch(db.responses_fts[j],
                           MatchPhrase(FtsSafeQuery(req.q)))}
    ELSE {i \in 1..Len(db.responses) :
            \/ ValueLike(db, db.responses[i].prompt, LikePattern(req.q))
            \/ ValueLike(db, db.responses[i].response, LikePattern(req.q))}

\* C3: the indexed path and the fallback path answer in the same shape
\* (query, results, total, limit, offset, the same fields in every result),
\* and on each path total is the number of rows the path's own result query
\* matches without LIMIT/OFFSET, whatever the database holds, an index whose
\* rows do not correspond 1:1 to the response rows included.
C3_SearchTotalCountsPathQuery ==
    (req.op = "search" /\ resp.status = "ok") =>
        /\ DOMAIN resp.body = SearchResponseFields
        /\ \A i \in 1..Len(resp.body.results) :
              DOMAIN resp.body.results[i] = SearchResultFields
        /\ resp.body.total = Cardinality(PathMatches)

\* The offset a search request asks for.
RequestOffset ==
    IF req.op = "search" THEN req.offset ELSE (req.page - 1) * req.limit

\* The indexed attempt of the request raises.
IndexedAttemptRaises ==
    _search_fts(db, req.q, req.limit, RequestOffset).status = "error"

\* What the fallback path answers to the request.
FallbackAnswer == _search_like(db, req.q, req.limit, RequestOffset)

\* C4: a search request takes the fallback path exactly when the index
\* table is absent or the indexed attempt raises, and then the caller
\* receives the fallback path's result: its entries and its total.
C4_FallbackExactlyOnFailure ==
    (req.op \in {"search", "search_page"} /\ resp.attempts # <<>>) =>
        LET fallback == resp.attempts[Len(resp.attempts)] = "like"
        IN  /\ fallback <=> \/ "responses_fts" \notin table_names(db)
                            \/ IndexedAttemptRaises
            /\ fallback =>
                  /\ resp.status = FallbackAnswer.status
                  /\ resp.status = "ok" =>
                        /\ resp.body.results = FallbackAnswer.body.results
                        /\ resp.body.total = FallbackAnswer.body.total

(***************************************************************************)
(* create_snippet on its own: texts x..x mid y..y around the window sizes.  *)
(***************************************************************************)
Pad(c, n) == [i \in 1..n |-> c]

SnippetMids    == {<<>>, <<"a", "b">>, <<"A", "b">>, <<"b", "a", "b">>}
SnippetQueries == {<<>>, <<"a", "b">>, <<"A", "B">>, <<"b">>, <<"z">>}
PrefixLens     == {0, 1} \cup ((SnippetBefore - 1)..(SnippetBefore + MaxSlack))
SuffixLens     == {0, 1} \cup ((SnippetAfter - 1)..(SnippetAfter + MaxSlack))
MaxLengths     == {10, DefaultMaxLength}

InitSnippet ==
    /\ db = EmptyDb
    /\ req = NoRequest
    /\ resp = NoResponse
    /\ AlreadyServing

\* api/search.py's copy, called on a text
CreateSnippetApi ==
    /\ Idle
    /\ \E pre \in PrefixLens, suf \in SuffixLens, mid \in SnippetMids,
          query \in SnippetQueries, max_length \in MaxLengths :
          LET text == Pad("x", pre) \o mid \o Pad("y", suf)
          IN  /\ req' = [op |-> "create_snippet", copy |-> "api",
                         text |-> text, query |-> query,
                         max_length |-> max_length]
              /\ resp' = Ok(create_snippet(text, query, max_length))
              /\ UNCHANGED <<db, os, proc>>

\* views/search.py's copy
CreateSnippetView ==
    /\ Idle
    /\ \E pre \in PrefixLens, suf \in SuffixLens, mid \in SnippetMids,
          query \in SnippetQueries, max_length \in MaxLengths :
          LET text == Pad("x", pre) \o mid \o Pad("y", suf)
          IN  /\ req' = [op |-> "create_snippet", copy |-> "view",
                         text |-> text, query |-> query,
                         max_length |-> max_length]
              /\ resp' = Ok(view_create_snippet(text, query, max_length))
              /\ UNCHANGED <<db, os, proc>>

NextSnippet ==
    \/ CreateSnippetApi
    \/ CreateSnippetView
    \/ Respond

SpecSnippet == InitSnippet /\ [][NextSnippet]_vars

\* The places (from 0) where query occurs in text, case ignored.
Occurrences(text, query) ==
    {i \in 0..(Len(text) - Len(query)) :
        \A k \in 1..Len(query) : LowerChar(text[i + k]) = LowerChar(query[k])}

FirstOf(S) == CHOOSE i \in S : \A j \in S : i <= j

\* C6: for a non-empty text in which the query first occurs (case ignored) at
\* p, create_snippet returns text[start:end], start = max(0, p - 50),
\* end = min(len(text), p + len(query) + 150), with "..." in front iff
\* start > 0 and "..." behind iff end < len(text); a match at 0 gets no
\* leading and a match that ends the text no trailing ellipsis; both copies
\* of create_snippet return the same value.
C6_SnippetWindow ==
    (req.op = "create_snippet" /\ req.text # <<>>
        /\ Occurrences(req.text, req.query) # {}) =>
        LET text  == req.text
            p     == FirstOf(Occurrences(text, req.query))
            start == IF p - 50 > 0 THEN p - 50 ELSE 0
            e     == p + Len(req.query) + 150
            end   == IF e < Len(text) THEN e ELSE Len(text)
            lead  == IF start > 0 THEN 3 ELSE 0
            trail == IF end < Len(text) THEN 3 ELSE 0
            out   == resp.body
        IN  /\ Len(out) = lead + (end - start) + trail
            /\ \A i \in 1..(end - start) : out[lead + i] = text[start + i]
            /\ start > 0 <=> (lead = 3 /\ SubSeq(out, 1, 3) = Ellipsis)
            /\ end < Len(text)
                 <=> (trail = 3 /\ SubSeq(out, Len(out) - 2, Len(out)) = Ellipsis)
            /\ p = 0 => out[1] = text[1]
            /\ p + Len(req.query) = Len(text) => out[Len(out)] = text[Len(text)]
            /\ create_snippet(text, req.query, req.max_length)
                 = view_create_snippet(text, req.query, req.max_length)

\* A match far enough from both ends: both ellipses.
C6_Witness ==
    /\ req.op = "create_snippet"
    /\ req.query = <<"A", "B">>
    /\ Occurrences(req.text, req.query) # {}
    /\ FirstOf(Occurrences(req.text, req.query)) > 50
    /\ Len(req.text) > FirstOf(Occurrences(req.text, req.query)) + 2 + 150
    /\ SubSeq(resp.body, 1, 3) = Ellipsis
    /\ Len(resp.body) = 3 + 50 + 2 + 150 + 3

\* C7: for a non-empty text that does not contain the query (case ignored),
\* create_snippet returns the first max_length characters followed by "..."
\* when the text is longer than max_length, and the text itself otherwise.
C7_SnippetNoMatch ==
    (req.op = "create_snippet" /\ req.text # <<>>
        /\ Occurrences(req.text, req.query) = {}) =>
        LET text == req.text
            n    == req.max_length
        IN  IF Len(text) > n
            THEN /\ Len(resp.body) = n + 3
                 /\ \A i \in 1..n : resp.body[i] = text[i]
                 /\ \A i \in 1..3 : resp.body[n + i] = "."
            ELSE resp.body = text

\* No match in a text longer than the default max_length of 200.
C7_Witness ==
    /\ req.op = "create_snippet"
    /\ req.text # <<>>
    /\ Occurrences(req.text, req.query) = {}
    /\ req.max_length = DefaultMaxLength
    /\ Len(req.text) > DefaultMaxLength
    /\ Len(resp.body) = DefaultMaxLength + 3

(***************************************************************************)
(* api/metrics.py: get_metrics_summary                                     *)
(***************************************************************************)
\* AVG(col): NULL over no non-null value, else the quotient sum / count,
\* kept as the two numbers.
NullAvg == [null |-> TRUE, sum |-> 0, count |-> 0]

Avg(rows, col) ==
    IF NonNull(rows, col) = <<>> THEN NullAvg
    ELSE [null |-> FALSE, sum |-> SumSeq(NonNull(rows, col)),
          count |-> Len(NonNull(rows, col))]

\* COUNT(DISTINCT model)
DistinctModels(rows) ==
    Cardinality({rows[i].model : i \in 1..Len(rows)} \ {NULLSTR})

\* date_filter and params, from the start_date and end_date of the request
DateClauses(start_date, end_date) ==
    ResponseClauses("", "", start_date, end_date)

DateParams(start_date, end_date) ==
    ResponseParams("", "", start_date, end_date)

\* MetricsSummary()
EmptyMetricsSummary ==
    [total_responses |-> 0, total_conversations |-> 0,
     total_input_tokens |-> 0, total_output_tokens |-> 0, total_tokens |-> 0,
     avg_duration_ms |-> NullAvg, avg_input_tokens |-> NullAvg,
     avg_output_tokens |-> NullAvg, total_tool_calls |-> 0,
     total_tool_errors |-> 0, unique_models |-> 0]

\* db[table].count behind `if table in db.table_names()`
CountIfExists(d, table) ==
    IF table \in table_names(d) THEN Len(d[table]) ELSE 0

\* SELECT COUNT(*) FROM tool_results WHERE exception IS NOT NULL
ToolErrors(d) ==
    IF "tool_results" \in table_names(d)
    THEN Len(SelectSeq(d.tool_results, LAMBDA r : r.exception # NULLSTR))
    ELSE 0

get_metrics_summary(d, start_date, end_date) ==
    IF "responses" \notin table_names(d) THEN Ok(EmptyMetricsSummary)
    ELSE LET rows == Filter(d.responses, DateClauses(start_date, end_date),
                            DateParams(start_date, end_date))
         IN  Ok([total_responses |-> Len(rows),
                 total_conversations |-> CountIfExists(d, "conversations"),
                 total_input_tokens |-> SumCol(rows, "input_tokens"),
                 total_output_tokens |-> SumCol(rows, "output_tokens"),
                 total_tokens |-> SumCol(rows, "input_tokens")
                                  + SumCol(rows, "output_tokens"),
                 avg_duration_ms |-> Avg(rows, "duration_ms"),
                 avg_input_tokens |-> Avg(rows, "input_tokens"),
                 avg_output_tokens |-> Avg(rows, "output_tokens"),
                 total_tool_calls |-> CountIfExists(d, "tool_calls"),
                 total_tool_errors |-> ToolErrors(d),
                 unique_models |-> DistinctModels(rows)])

(***************************************************************************)
(* api/metrics.py: get_latency_distribution                                *)
(***************************************************************************)
\* buckets = [(low, high, label), ...]; high None is NoHigh.
NoHigh == 0 - 1

LatencyBuckets ==
    << <<0, 100, "0-100ms">>,
       <<100, 500, "100-500ms">>,
       <<500, 1000, "500ms-1s">>,
       <<1000, 2000, "1-2s">>,
       <<2000, 5000, "2-5s">>,
       <<5000, 10000, "5-10s">>,
       <<10000, 30000, "10-30s">>,
       <<30000, 60000, "30-60s">>,
       <<60000, NoHigh, "60s+">> >>

\* Mutation: the upper bound of a bucket taken inclusive.
InBucket_Inclusive(duration_ms, low, high) ==
    duration_ms >= low /\ (high # NoHigh => duration_ms <= high)

\* duration_ms >= low AND duration_ms < high, the last bucket without `high`
InBucket(duration_ms, low, high) ==
    duration_ms >= low /\ (high # NoHigh => duration_ms < high)

\* SELECT COUNT(*) FROM responses WHERE duration_ms IS NOT NULL
\* AND duration_ms >= {low} [AND duration_ms < {high}] {date_filter}
BucketCount(d, low, high, start_date, end_date) ==
    Len(SelectSeq(
          Filter(d.responses,
                 <<"duration_ms IS NOT NULL">>
                     \o DateClauses(start_date, end_date),
                 DateParams(start_date, end_date)),
          LAMBDA r : InBucket(r.duration_ms, low, high)))

\* Mutation: only the buckets that counted a row are reported.
get_latency_distribution_SkipEmpty(d, start_date, end_date) ==
    IF "responses" \notin table_names(d) THEN Ok(<<>>)
    ELSE Ok(SelectSeq(
              [i \in 1..Len(LatencyBuckets) |->
                  [range |-> LatencyBuckets[i][3],
                   count |-> BucketCount(d, LatencyBuckets[i][1],
                                         LatencyBuckets[i][2],
                                         start_date, end_date)]],
              LAMBDA b : b.count > 0))

get_latency_distribution(d, start_date, end_date) ==
    IF "responses" \notin table_names(d) THEN Ok(<<>>)
    ELSE Ok([i \in 1..Len(LatencyBuckets) |->
                [range |-> LatencyBuckets[i][3],
                 count |-> BucketCount(d, LatencyBuckets[i][1],
                                       LatencyBuckets[i][2],
                                       start_date, end_date)]])

(***************************************************************************)
(* views/dashboard.py                                                      *)
(***************************************************************************)
RecentLimit == 10

\* round(x) of Python on the quotient sum / count of non-negative numbers:
\* to the nearest integer, a half to the even one.
Round(avg) ==
    LET q == avg.sum \div avg.count
        r == avg.sum % avg.count
    IN  IF 2 * r < avg.count THEN q
        ELSE IF 2 * r > avg.count THEN q + 1
        ELSE IF q % 2 = 0 THEN q ELSE q + 1

\* metrics["avg_duration_ms"] = round(row[2]) if row[2] else 0
DashboardAvgDuration(avg) ==
    IF avg.null \/ avg.sum = 0 THEN 0 ELSE Round(avg)

\* The models in the order GROUP BY model and ORDER BY model yield them;
\* NULLSTR stands first, as NULL does.
ModelOrder == <<NULLSTR, "m1", "m2">>

\* SELECT model, COUNT(*) as count FROM responses GROUP BY model
\* ORDER BY count DESC LIMIT 10
ModelCounts(d) ==
    LET present == SelectSeq(ModelOrder,
                             LAMBDA m : \E i \in 1..Len(d.responses) :
                                           d.responses[i].model = m)
        groups  == [i \in 1..Len(present) |->
                       [model |-> present[i],
                        count |-> Len(SelectSeq(d.responses,
                                      LAMBDA r : r.model = present[i]))]]
    IN  Take(OrderByDesc(groups, "count"), RecentLimit)

dashboard(d) ==
    LET has_responses == "responses" \in table_names(d)
        metrics ==
            [total_responses |-> IF has_responses THEN Len(d.responses) ELSE 0,
             total_conversations |-> CountIfExists(d, "conversations"),
             total_tokens |->
                 IF has_responses
                 THEN SumCol(d.responses, "input_tokens")
                      + SumCol(d.responses, "output_tokens")
                 ELSE 0,
             avg_duration_ms |->
                 IF has_responses
                 THEN DashboardAvgDuration(Avg(d.responses, "duration_ms"))
                 ELSE 0,
             unique_models |->
                 IF has_responses THEN DistinctModels(d.responses) ELSE 0]
    IN  Ok([metrics |-> metrics,
            recent_responses |->
                IF has_responses
                THEN Take(OrderByDesc(d.responses, "datetime_utc"), RecentLimit)
                ELSE <<>>,
            model_usage |-> IF has_responses THEN ModelCounts(d) ELSE <<>>])

(***************************************************************************)
(* views/responses.py: view_response                                       *)
(***************************************************************************)
\* `if response.get("conversation_id") and "conversations" in
\* db.table_names()`: the conversation of the response, or none.
ConversationOf(d, response) ==
    IF /\ response.conversation_id \notin {NULLSTR, ""}
       /\ "conversations" \in table_names(d)
    THEN Take(rows_where_eq(d, "conversations", "id",
                            response.conversation_id), 1)
    ELSE <<>>

view_response(d, response_id) ==
    LET rows == rows_where_eq(d, "responses", "id", response_id)
    IN  IF rows = <<>> THEN NotFound
        ELSE Ok([response |-> rows[1],
                 tool_calls |-> ToolCallsOf(d, response_id),
                 tool_results |-> ToolResultsOf(d, response_id),
                 attachments |->
                     IF "prompt_attachments" \in table_names(d)
                     THEN AttachmentsOf(d, response_id)
                     ELSE <<>>,
                 conversation |-> ConversationOf(d, rows[1])])

(***************************************************************************)
(* views/conversations.py                                                  *)
(***************************************************************************)
\* total_pages = (total + limit - 1) // limit
ListPages(total, limit) == (total + limit - 1) \div limit

view_list_conversations(d, page, limit) ==
    IF "conversations" \notin table_names(d)
    THEN Ok([conversations |-> <<>>, total |-> 0, page |-> page,
             limit |-> limit, total_pages |-> 0])
    ELSE IF "responses" \notin table_names(d)
    THEN Raised("no such table: responses")
    ELSE Ok([conversations |-> ConversationsPage(d, limit, (page - 1) * limit),
             total |-> ConversationsTotal(d), page |-> page, limit |-> limit,
             total_pages |-> ListPages(ConversationsTotal(d), limit)])

view_conversation(d, conversation_id) ==
    IF "conversations" \notin table_names(d) THEN NotFound
    ELSE LET rows == rows_where_eq(d, "conversations", "id", conversation_id)
             rs   == ResponsesOfConversation(d, conversation_id)
         IN  IF rows = <<>> THEN NotFound
             ELSE Ok([conversation |-> rows[1], responses |-> rs,
                      total_input_tokens |-> SumCol(rs, "input_tokens"),
                      total_output_tokens |-> SumCol(rs, "output_tokens"),
                      total_duration_ms |-> SumCol(rs, "duration_ms")])

(***************************************************************************)
(* Every operation that touches a table other than responses, over the     *)
(* databases in which any subset of the tables exists.  A table that       *)
(* exists holds its sample rows.                                           *)
(***************************************************************************)
Tool(i) == [id |-> i, name |-> "tool", description |-> NULLSTR,
            input_schema |-> NULLSTR, plugin |-> NULLSTR]

PromptAttachment(response_id, attachment_id, order) ==
    [response_id |-> response_id, attachment_id |-> attachment_id,
     order |-> order]

Attachment(id) ==
    [id |-> id, type |-> "text/plain", path |-> NULLSTR, url |-> NULLSTR,
     content |-> "bytes"]

SampleResponses ==
    << [Response(1, "r1", "m1", 1, "c1") EXCEPT
            !.prompt = Text(SearchText), !.duration_ms = 100],
       [Response(2, "r2", "m1", 2, NULLSTR) EXCEPT
            !.response = Text(SearchText)] >>

SampleRows ==
    [EmptyDb EXCEPT
        !.responses = SampleResponses,
        !.conversations = <<Conversation(1)>>,
        !.tools = <<Tool(1), Tool(2)>>,
        !.tool_calls = <<ToolCall(1, 1, "r1")>>,
        !.tool_results = <<ToolResult(1, 1, "r1", "boom"),
                           ToolResult(2, 1, "r1", NULLSTR)>>,
        !.prompt_attachments = <<PromptAttachment("r1", "a1", 2),
                                 PromptAttachment("r1", "a2", 1),
                                 PromptAttachment("r1", "a9", 0)>>,
        !.attachments = <<Attachment("a1"), Attachment("a2")>>,
        !.responses_fts = <<IndexRow(SampleResponses[1]),
                            IndexRow(SampleResponses[2])>>]

\* The database in which exactly the tables of present exist.
DbWith(present) ==
    [f \in DOMAIN SampleRows |->
        IF f = "tables" THEN present
        ELSE IF f \in TableNames /\ f \notin present THEN <<>>
        ELSE SampleRows[f]]

TablesDbs == {DbWith(present) : present \in SUBSET TableNames}

ResponseIds     == {"r1", "r9"}
ConversationIds == {"c1", "c9"}

InitTables ==
    /\ db \in TablesDbs
    /\ req = NoRequest
    /\ resp = NoResponse
    /\ AlreadyServing

\* GET /api/responses/{response_id}
GetResponse ==
    /\ Idle
    /\ \E response_id \in ResponseIds :
          /\ req' = [op |-> "get_response", response_id |-> response_id]
          /\ resp' = get_response(db, response_id)
    /\ UNCHANGED <<db, os, proc>>

\* GET /api/responses/{response_id}/attachments
GetResponseAttachments ==
    /\ Idle
    /\ \E response_id \in ResponseIds :
          /\ req' = [op |-> "get_response_attachments",
                     response_id |-> response_id]
          /\ resp' = get_response_attachments(db, response_id)
    /\ UNCHANGED <<db, os, proc>>

\* GET /api/conversations/{conversation_id}
GetConversation ==
    /\ Idle
    /\ \E conversation_id \in ConversationIds :
          /\ req' = [op |-> "get_conversation",
                     conversation_id |-> conversation_id]
          /\ resp' = get_conversation(db, conversation_id)
    /\ UNCHANGED <<db, os, proc>>

\* GET /api/tools
ListTools ==
    /\ Idle
    /\ req' = [op |-> "list_tools"]
    /\ resp' = list_tools(db)
    /\ UNCHANGED <<db, os, proc>>

\* GET /api/metrics/summary
GetMetricsSummary ==
    /\ Idle
    /\ \E start_date \in {NODATE, 2}, end_date \in {NODATE, 1} :
          /\ req' = [op |-> "get_metrics_summary", start_date |-> start_date,
                     end_date |-> end_date]
          /\ resp' = get_metrics_summary(db, start_date, end_date)
    /\ UNCHANGED <<db, os, proc>>

\* GET /
Dashboard ==
    /\ Idle
    /\ req' = [op |-> "dashboard"]
    /\ resp' = dashboard(db)
    /\ UNCHANGED <<db, os, proc>>

\* GET /responses/{response_id}
ViewResponse ==
    /\ Idle
    /\ \E response_id \in ResponseIds :
          /\ req' = [op |-> "view_response", response_id |-> response_id]
          /\ resp' = view_response(db, response_id)
    /\ UNCHANGED <<db, os, proc>>

\* GET /conversations
ViewListConversations ==
    /\ Idle
    /\ \E page \in Pages, limit \in Limits :
          /\ req' = [op |-> "view_list_conversations", page |-> page,
                     limit |-> limit]
          /\ resp' = view_list_conversations(db, page, limit)
    /\ UNCHANGED <<db, os, proc>>

\* GET /conversations/{conversation_id}
ViewConversation ==
    /\ Idle
    /\ \E conversation_id \in ConversationIds :
          /\ req' = [op |-> "view_conversation",
                     conversation_id |-> conversation_id]
          /\ resp' = view_conversation(db, conversation_id)
    /\ UNCHANGED <<db, os, proc>>

NextTables ==
    \/ ListConversations
    \/ GetConversation
    \/ ListTools
    \/ GetToolCalls
    \/ GetToolResults
    \/ GetResponse
    \/ GetResponseAttachments
    \/ GetMetricsSummary
    \/ Search
    \/ Dashboard
    \/ ViewResponse
    \/ ViewListConversations
    \/ ViewConversation
    \/ SearchPage
    \/ Respond

SpecTables == InitTables /\ [][NextTables]_vars

OptionalTables ==
    {"conversations", "tools", "tool_calls", "tool_results",
     "prompt_attachments", "attachments", "responses_fts"}

Missing(table) == table \notin table_names(db)

\* The answer in resp is the empty one: no items and a total of 0.
EmptyList == resp.status = "ok" /\ resp.body.items = <<>> /\ resp.body.total = 0

\* C5: whichever optional tables are absent, no operation raises from
\* querying a missing table, and what an operation reads from an absent
\* optional table comes out empty: an empty list with total 0, a count of
\* 0, no tool calls, results or attachments, a lookup that finds nothing.
C5_MissingOptionalTablesAreEmpty ==
    (~Idle /\ ~Missing("responses")) =>
        /\ resp.status # "error"
        /\ (req.op = "list_tools" /\ Missing("tools")) => EmptyList
        /\ (req.op = "list_tools" /\ ~Missing("tools")) =>
              \A i \in 1..Len(resp.body.items) :
                 /\ Missing("tool_calls") => resp.body.items[i].call_count = 0
                 /\ Missing("tool_results") =>
                       /\ resp.body.items[i].result_count = 0
                       /\ resp.body.items[i].error_count = 0
        /\ (req.op = "list_conversations" /\ Missing("conversations")) =>
              EmptyList
        /\ (req.op = "view_list_conversations" /\ Missing("conversations")) =>
              resp.body.conversations = <<>> /\ resp.body.total = 0
        /\ (/\ req.op \in {"get_conversation", "view_conversation"}
            /\ Missing("conversations")) => resp = NotFound
        /\ (req.op = "get_tool_calls" /\ Missing("tool_calls")) => EmptyList
        /\ (req.op = "get_tool_results" /\ Missing("tool_results")) => EmptyList
        /\ (req.op \in {"get_response", "view_response"} /\ resp.status = "ok") =>
              /\ Missing("tool_calls") => resp.body.tool_calls = <<>>
              /\ Missing("tool_results") => resp.body.tool_results = <<>>
        /\ (req.op = "view_response" /\ resp.status = "ok") =>
              /\ (Missing("prompt_attachments") \/ Missing("attachments")) =>
                    resp.body.attachments = <<>>
              /\ Missing("conversations") => resp.body.conversation = <<>>
        /\ (/\ req.op = "get_response_attachments"
            /\ Missing("prompt_attachments") \/ Missing("attachments")) =>
              resp = Ok(<<>>)
        /\ req.op = "get_metrics_summary" =>
              /\ Missing("conversations") => resp.body.total_conversations = 0
              /\ Missing("tool_calls") => resp.body.total_tool_calls = 0
              /\ Missing("tool_results") => resp.body.total_tool_errors = 0
        /\ (req.op = "dashboard" /\ Missing("conversations")) =>
              resp.body.metrics.total_conversations = 0
        /\ (req.op \in {"search", "search_page"} /\ Missing("responses_fts")) =>
              resp.status = "ok"

\* /api/tools asked of a database that has responses and no tools table,
\* and /api/responses/r1/attachments of one whose links exist and whose
\* attachments table does not.
C5_Witness ==
    \/ /\ req.op = "list_tools"
       /\ Missing("tools") /\ ~Missing("responses")
       /\ resp = Ok([items |-> <<>>, total |-> 0])
    \/ /\ req.op = "get_response_attachments" /\ req.response_id = "r1"
       /\ ~Missing("prompt_attachments") /\ Missing("attachments")
       /\ ~Missing("responses")
       /\ resp = Ok(<<>>)

(***************************************************************************)
(* The metrics operations over responses whose durations sit on and next   *)
(* to the bucket boundaries, with and without token counts; row i is       *)
(* dated i.  The responses table may be absent.                            *)
(***************************************************************************)
Durations ==
    {NULLINT, 0, 99, 100, 499, 500, 1000, 2000, 5000, 10000, 30000, 60000}

TokenCounts == {NULLINT, 3}

MetricsRow(i, k) ==
    [Response(i, RId(i), "m1", i, NULLSTR) EXCEPT
        !.duration_ms = k[1], !.input_tokens = k[2], !.output_tokens = k[2]]

MetricsDbs ==
    {EmptyDb}
    \cup {[EmptyDb EXCEPT !.tables = {"responses"}, !.responses = rows] :
             rows \in SeqsOf(Durations \X TokenCounts, MetricsRow)}

InitMetrics ==
    /\ db \in MetricsDbs
    /\ req = NoRequest
    /\ resp = NoResponse
    /\ AlreadyServing

\* GET /api/metrics/latency
GetLatencyDistribution ==
    /\ Idle
    /\ \E start_date \in {NODATE, 2}, end_date \in {NODATE, 1} :
          /\ req' = [op |-> "get_latency_distribution",
                     start_date |-> start_date, end_date |-> end_date]
          /\ resp' = get_latency_distribution(db, start_date, end_date)
    /\ UNCHANGED <<db, os, proc>>

NextMetrics ==
    \/ GetMetricsSummary
    \/ GetLatencyDistribution
    \/ Dashboard
    \/ Respond

SpecMetrics == InitMetrics /\ [][NextMetrics]_vars

\* The rows of the responses table inside the date range of the request.
InDateRange(r) ==
    /\ req.start_date = NODATE
       \/ (r.datetime_utc # NULLINT /\ r.datetime_utc >= req.start_date)
    /\ req.end_date = NODATE
       \/ (r.datetime_utc # NULLINT /\ r.datetime_utc <= req.end_date)

\* The rows a metrics request aggregates that have a value in column col.
Qualifying(col) ==
    {i \in 1..Len(db.responses) :
        /\ InDateRange(db.responses[i])
        /\ db.responses[i][col] # NULLINT}

BucketCounts == [i \in 1..Len(resp.body) |-> resp.body[i].count]

\* C8: the counts of the buckets get_latency_distribution returns sum to
\* the number of filtered rows whose duration_ms is not null: each such row
\* is counted in exactly one bucket.
C8_BucketsPartitionDurations ==
    req.op = "get_latency_distribution" =>
        /\ resp.status = "ok"
        /\ SumSeq(BucketCounts) = Cardinality(Qualifying("duration_ms"))

\* A row whose duration is a bucket boundary has been counted.
C8_Witness ==
    /\ req.op = "get_latency_distribution"
    /\ resp.status = "ok"
    /\ \E i \in Qualifying("duration_ms") :
          db.responses[i].duration_ms \in {100, 500, 60000}
    /\ \E i \in 1..Len(db.responses) : db.responses[i].duration_ms = NULLINT
    /\ SumSeq(BucketCounts) >= 1

\* The nine buckets of the histogram: low, high (0 - 1 for none) and label.
NineBuckets ==
    << <<0, 100, "0-100ms">>, <<100, 500, "100-500ms">>,
       <<500, 1000, "500ms-1s">>, <<1000, 2000, "1-2s">>,
       <<2000, 5000, "2-5s">>, <<5000, 10000, "5-10s">>,
       <<10000, 30000, "10-30s">>, <<30000, 60000, "30-60s">>,
       <<60000, 0 - 1, "60s+">> >>

\* resp holds all nine buckets in ascending order, each with its label and
\* the number of qualifying rows in its range.
AllNineBuckets ==
    /\ resp.status = "ok"
    /\ Len(resp.body) = Len(NineBuckets)
    /\ \A i \in 1..Len(NineBuckets) :
          /\ resp.body[i].range = NineBuckets[i][3]
          /\ resp.body[i].count =
                Cardinality({j \in Qualifying("duration_ms") :
                    /\ db.responses[j].duration_ms >= NineBuckets[i][1]
                    /\ \/ NineBuckets[i][2] = 0 - 1
                       \/ db.responses[j].duration_ms < NineBuckets[i][2]})

\* C9 as stated: every result of the latency histogram holds all nine
\* buckets, in ascending order with their fixed labels, those that count 0
\* included.
C9_AlwaysNineBuckets ==
    req.op = "get_latency_distribution" => AllNineBuckets

\* C9, amended: when the responses table exists the result holds all nine
\* buckets in ascending order with their fixed labels, those that count 0
\* included; when it does not exist the result is the empty list.
C9_NineBucketsWhenTableExists ==
    req.op = "get_latency_distribution" =>
        IF "responses" \in table_names(db) THEN AllNineBuckets
        ELSE resp = Ok(<<>>)

\* A histogram over an existing table with an empty and a non-empty bucket.
C9_Witness ==
    /\ req.op = "get_latency_distribution"
    /\ "responses" \in table_names(db)
    /\ Len(resp.body) = Len(NineBuckets)
    /\ \E i, j \in 1..Len(resp.body) :
          resp.body[i].count = 0 /\ resp.body[j].count > 0

\* C10: when no row qualifies for an average (no response in the range, or
\* every value null), each average reported is null: avg_duration_ms,
\* avg_input_tokens and avg_output_tokens of the summary, and the average
\* duration of the dashboard.
C10_AveragesNullOverNoRows ==
    /\ req.op = "get_metrics_summary" =>
          /\ Qualifying("duration_ms") = {} => resp.body.avg_duration_ms.null
          /\ Qualifying("input_tokens") = {} => resp.body.avg_input_tokens.null
          /\ Qualifying("output_tokens") = {} =>
                resp.body.avg_output_tokens.null
    /\ (/\ req.op = "dashboard"
        /\ \A i \in 1..Len(db.responses) :
              db.responses[i].duration_ms = NULLINT)
       => resp.body.metrics.avg_duration_ms = NULLINT

(***************************************************************************)
(* api/metrics.py: get_model_usage                                         *)
(***************************************************************************)
\* SELECT model, COUNT(*), COALESCE(SUM(input_tokens), 0),
\* COALESCE(SUM(output_tokens), 0), AVG(duration_ms) FROM responses
\* WHERE 1=1 {date_filter} GROUP BY model: one row per model of rows.
ModelGroups(rows) ==
    LET present == SelectSeq(ModelOrder,
                             LAMBDA m : \E i \in 1..Len(rows) : rows[i].model = m)
        Of(m) == SelectSeq(rows, LAMBDA r : r.model = m)
    IN  [i \in 1..Len(present) |->
            [model |-> present[i],
             response_count |-> Len(Of(present[i])),
             input_tokens |-> SumCol(Of(present[i]), "input_tokens"),
             output_tokens |-> SumCol(Of(present[i]), "output_tokens"),
             avg_duration_ms |-> Avg(Of(present[i]), "duration_ms")]]

\* Mutation: the date filter left out of the query.
ModelUsageRows_Unfiltered(d, start_date, end_date) == d.responses

\* The rows the query of get_model_usage aggregates.
ModelUsageRows(d, start_date, end_date) ==
    Filter(d.responses, DateClauses(start_date, end_date),
           DateParams(start_date, end_date))

get_model_usage(d, start_date, end_date, limit) ==
    IF "responses" \notin table_names(d) THEN Ok(<<>>)
    ELSE LET rows == Take(OrderByDesc(
                              ModelGroups(ModelUsageRows(d, start_date, end_date)),
                              "response_count"),
                          limit)
         IN  IF \E i \in 1..Len(rows) : rows[i].model = NULLSTR
             THEN Raised("ValidationError")
             ELSE Ok(rows)

(***************************************************************************)
(* api/metrics.py: get_token_usage_over_time, get_responses_over_time      *)
(***************************************************************************)
\* A datetime_utc is the number of the hour it lies in, hours counted from
\* 1 within a year that starts on a Monday; the keys strftime makes of it
\* are numbers ordered as the formatted strings are.
\* A datetime_utc that strftime cannot parse stands for a text such as
\* 'unknown': it is not NULL, it compares above every date, and strftime
\* makes NULL of it.
Unparseable == 999

MonthEnds == <<31, 60, 91, 121, 152, 182, 213, 244, 274, 305, 335, 366>>

DayOf(t) == (t - 1) \div 24

\* strftime(date_formats[granularity], datetime_utc)
Strftime(granularity, t) ==
    IF t \in {NULLINT, Unparseable} THEN NULLINT
    ELSE CASE granularity = "hour"  -> t
           [] granularity = "day"   -> DayOf(t) + 1
           [] granularity = "week"  -> DayOf(t) \div 7 + 1
           [] granularity = "month" ->
                 CHOOSE m \in 1..Len(MonthEnds) :
                    /\ DayOf(t) < MonthEnds[m]
                    /\ \A k \in 1..(m - 1) : DayOf(t) >= MonthEnds[k]

\* The elements of a set of numbers in ascending order: ORDER BY date.
RECURSIVE Ascending(_)
Ascending(S) ==
    IF S = {} THEN <<>>
    ELSE LET lo == CHOOSE x \in S : \A y \in S : x <= y
         IN  <<lo>> \o Ascending(S \ {lo})

\* FROM responses WHERE datetime_utc IS NOT NULL {date_filter}
TimeSeriesRows(d, start_date, end_date) ==
    Filter(d.responses,
           <<"datetime_utc IS NOT NULL">> \o DateClauses(start_date, end_date),
           DateParams(start_date, end_date))

\* SELECT strftime(..) as date, <aggregate> as value ... GROUP BY date
\* ORDER BY date, and `for row in rows if row[0]`.
TimeSeries(rows, granularity, Value(_)) ==
    LET dates == Ascending({Strftime(granularity, rows[i].datetime_utc) :
                               i \in 1..Len(rows)})
        keys == SelectSeq(dates, LAMBDA date : date # NULLINT)
        Of(key) == SelectSeq(rows,
                      LAMBDA r : Strftime(granularity, r.datetime_utc) = key)
    IN  [i \in 1..Len(keys) |-> [date |-> keys[i], value |-> Value(Of(keys[i]))]]

\* Mutation: the output tokens left out of the value.
TokenValue_InputOnly(rows) == SumCol(rows, "input_tokens")

\* COALESCE(SUM(input_tokens), 0) + COALESCE(SUM(output_tokens), 0)
TokenValue(rows) == SumCol(rows, "input_tokens") + SumCol(rows, "output_tokens")

\* COUNT(*)
CountValue(rows) == Len(rows)

get_token_usage_over_time(d, start_date, end_date, granularity) ==
    IF "responses" \notin table_names(d) THEN Ok(<<>>)
    ELSE Ok(TimeSeries(TimeSeriesRows(d, start_date, end_date), granularity,
                       TokenValue))

get_responses_over_time(d, start_date, end_date, granularity) ==
    IF "responses" \notin table_names(d) THEN Ok(<<>>)
    ELSE Ok(TimeSeries(TimeSeriesRows(d, start_date, end_date), granularity,
                       CountValue))

(***************************************************************************)
(* The aggregation operations with date filters: responses dated in        *)
(* different hours and days, not at all or not legibly, of two models,     *)
(* with and without token counts; the first response belongs to c1 and has *)
(* a tool call and a failed tool result when those tables exist.           *)
(***************************************************************************)
AggregateKinds ==
    ({NULLINT, 1, 2, 25} \X {<<"m1", NULLINT>>, <<"m1", 3>>, <<"m2", 3>>})
    \cup {<<Unparseable, <<"m1", 3>>>>}

AggregateRow(i, k) ==
    [Response(i, RId(i), k[2][1], k[1], IF i = 1 THEN "c1" ELSE NULLSTR) EXCEPT
        !.input_tokens = k[2][2],
        !.output_tokens = IF k[2][2] = NULLINT THEN 2
                          ELSE IF k[2][1] = "m1" THEN 1 ELSE NULLINT,
        !.duration_ms = k[2][2]]

AggregateDbs ==
    {EmptyDb}
    \cup {[EmptyDb EXCEPT !.tables = {"responses"}, !.responses = rows] :
             rows \in SeqsOf(AggregateKinds, AggregateRow)}
    \cup {[EmptyDb EXCEPT
              !.tables = {"responses", "conversations", "tool_calls",
                          "tool_results"},
              !.responses = rows,
              !.conversations = <<Conversation(1)>>,
              !.tool_calls = <<ToolCall(1, 1, "r1")>>,
              !.tool_results = <<ToolResult(1, 1, "r1", "boom")>>] :
             rows \in SeqsOf(AggregateKinds, AggregateRow)}

Granularities == {"hour", "day", "week", "month"}

InitAggregates ==
    /\ db \in AggregateDbs
    /\ req = NoRequest
    /\ resp = NoResponse
    /\ AlreadyServing

\* GET /api/metrics/models
GetModelUsage ==
    /\ Idle
    /\ \E start_date \in {NODATE, 2}, end_date \in {NODATE, 1},
          limit \in Limits :
          /\ req' = [op |-> "get_model_usage", start_date |-> start_date,
                     end_date |-> end_date, limit |-> limit]
          /\ resp' = get_model_usage(db, start_date, end_date, limit)
    /\ UNCHANGED <<db, os, proc>>

\* GET /api/metrics/tokens
GetTokenUsageOverTime ==
    /\ Idle
    /\ \E start_date \in {NODATE, 2}, end_date \in {NODATE, 1},
          granularity \in Granularities :
          /\ req' = [op |-> "get_token_usage_over_time",
                     start_date |-> start_date, end_date |-> end_date,
                     granularity |-> granularity]
          /\ resp' = get_token_usage_over_time(db, start_date, end_date,
                                               granularity)
    /\ UNCHANGED <<db, os, proc>>

\* GET /api/metrics/responses-over-time
GetResponsesOverTime ==
    /\ Idle
    /\ \E start_date \in {NODATE, 2}, end_date \in {NODATE, 1},
          granularity \in Granularities :
          /\ req' = [op |-> "get_responses_over_time",
                     start_date |-> start_date, end_date |-> end_date,
                     granularity |-> granularity]
          /\ resp' = get_responses_over_time(db, start_date, end_date,
                                             granularity)
    /\ UNCHANGED <<db, os, proc>>

NextAggregates ==
    \/ GetMetricsSummary
    \/ GetModelUsage
    \/ GetTokenUsageOverTime
    \/ GetResponsesOverTime
    \/ GetLatencyDistribution
    \/ Respond

SpecAggregates == InitAggregates /\ [][NextAggregates]_vars

\* The responses inside the date range of the request, as a sequence.
RowsInRange == SelectSeq(db.responses, InDateRange)

\* The sum of column col over the responses in range, NULL as 0.
SumInRange(col) ==
    SumSeq([i \in 1..Len(RowsInRange) |->
               IF RowsInRange[i][col] = NULLINT THEN 0 ELSE RowsInRange[i][col]])

\* What the responses in range make of the response metrics of the summary.
SummaryOverRange ==
    /\ resp.body.total_responses = Len(RowsInRange)
    /\ resp.body.total_input_tokens = SumInRange("input_tokens")
    /\ resp.body.total_output_tokens = SumInRange("output_tokens")
    /\ resp.body.avg_duration_ms.null = (Qualifying("duration_ms") = {})
    /\ resp.body.avg_duration_ms.sum = SumInRange("duration_ms")
    /\ resp.body.avg_duration_ms.count = Cardinality(Qualifying("duration_ms"))
    /\ resp.body.avg_input_tokens.count = Cardinality(Qualifying("input_tokens"))
    /\ resp.body.avg_output_tokens.count =
          Cardinality(Qualifying("output_tokens"))
    /\ resp.body.unique_models =
          Cardinality({RowsInRange[i].model : i \in 1..Len(RowsInRange)})

\* A row of another table lies outside the date range when the responses
\* it belongs to exist and all lie outside.
OutOfRange(Belongs(_)) ==
    /\ \E i \in 1..Len(db.responses) : Belongs(db.responses[i])
    /\ \A i \in 1..Len(db.responses) :
          Belongs(db.responses[i]) => ~InDateRange(db.responses[i])

\* The conversation and tool counts of the summary leave out the rows that
\* lie outside the date range.
RelatedOverRange ==
    /\ resp.body.total_conversations =
          Cardinality({i \in 1..Len(db.conversations) :
              ~OutOfRange(LAMBDA r :
                             r.conversation_id = db.conversations[i].id)})
    /\ resp.body.total_tool_calls =
          Cardinality({i \in 1..Len(db.tool_calls) :
              ~OutOfRange(LAMBDA r : r.id = db.tool_calls[i].response_id)})
    /\ resp.body.total_tool_errors =
          Cardinality({i \in 1..Len(db.tool_results) :
              /\ db.tool_results[i].exception # NULLSTR
              /\ ~OutOfRange(LAMBDA r :
                                r.id = db.tool_results[i].response_id)})

\* The per-model, time-series and latency answers count the responses in
\* range and no others.
OthersOverRange ==
    /\ req.op = "get_model_usage" /\ resp.status = "ok" =>
          \A i \in 1..Len(resp.body) :
             resp.body[i].response_count =
                Len(SelectSeq(RowsInRange,
                              LAMBDA r : r.model = resp.body[i].model))
    /\ req.op = "get_responses_over_time" =>
          SumSeq([i \in 1..Len(resp.body) |-> resp.body[i].value])
             = Cardinality({i \in Qualifying("datetime_utc") :
                               db.responses[i].datetime_utc # Unparseable})
    /\ req.op = "get_token_usage_over_time" =>
          SumSeq([i \in 1..Len(resp.body) |-> resp.body[i].value])
             = SumSeq([i \in 1..Len(RowsInRange) |->
                   IF RowsInRange[i].datetime_utc \in {NULLINT, Unparseable}
                   THEN 0
                   ELSE TokenValue(<<RowsInRange[i]>>)])
    /\ req.op = "get_latency_distribution" =>
          SumSeq(BucketCounts) = Cardinality(Qualifying("duration_ms"))

AggregationOps ==
    {"get_metrics_summary", "get_model_usage", "get_token_usage_over_time",
     "get_responses_over_time", "get_latency_distribution"}

\* C11: with start_date and/or end_date given, every metric an aggregation
\* operation reports is computed over the rows dated within the inclusive
\* bounds only: all metrics of the summary, the conversation, tool-call and
\* tool-error counts among them, and the per-model, time-series and latency
\* answers.
C11_DateFilterCoversEveryMetric ==
    (/\ req.op \in AggregationOps
     /\ "responses" \in table_names(db)
     /\ req.start_date # NODATE \/ req.end_date # NODATE) =>
        /\ req.op = "get_metrics_summary" =>
              SummaryOverRange /\ RelatedOverRange
        /\ OthersOverRange

\* The sum of column col over rows, a NULL counted as 0.
TokensOf(rows, col) ==
    SumSeq([i \in 1..Len(rows) |->
               IF rows[i][col] = NULLINT THEN 0 ELSE rows[i][col]])

\* The responses in range of model m.
InRangeOf(m) == SelectSeq(RowsInRange, LAMBDA r : r.model = m)

\* The per-model limit cuts no model: every model in range has its entry.
LimitCutsNoModel ==
    \A i \in 1..Len(RowsInRange) :
       \E j \in 1..Len(resp.body) : resp.body[j].model = RowsInRange[i].model

\* C12: the token totals of the summary are the sums of the columns over
\* the filtered rows, a null counted as 0, and total_tokens is their sum;
\* the entry of a model in the per-model breakdown sums the tokens of the
\* filtered responses of that model, so that the entries add up to the
\* totals of the summary when the limit cuts no model.
C12_TokenSums ==
    /\ (req.op = "get_metrics_summary" /\ "responses" \in table_names(db)) =>
          /\ resp.body.total_input_tokens = TokensOf(RowsInRange, "input_tokens")
          /\ resp.body.total_output_tokens =
                TokensOf(RowsInRange, "output_tokens")
          /\ resp.body.total_tokens =
                resp.body.total_input_tokens + resp.body.total_output_tokens
    /\ (req.op = "get_model_usage" /\ resp.status = "ok") =>
          /\ \A j \in 1..Len(resp.body) :
                /\ resp.body[j].input_tokens =
                      TokensOf(InRangeOf(resp.body[j].model), "input_tokens")
                /\ resp.body[j].output_tokens =
                      TokensOf(InRangeOf(resp.body[j].model), "output_tokens")
          /\ LimitCutsNoModel =>
                LET summary == get_metrics_summary(db, req.start_date,
                                                   req.end_date).body
                IN  /\ SumSeq([j \in 1..Len(resp.body) |->
                                  resp.body[j].input_tokens])
                          = summary.total_input_tokens
                    /\ SumSeq([j \in 1..Len(resp.body) |->
                                  resp.body[j].output_tokens])
                          = summary.total_output_tokens

\* A filtered breakdown whose one model has a null output token count,
\* in a database that holds a response outside the range too.
C12_Witness ==
    /\ req.op = "get_model_usage"
    /\ resp.status = "ok"
    /\ req.start_date # NODATE
    /\ Len(resp.body) = 1
    /\ LimitCutsNoModel
    /\ Len(RowsInRange) < Len(db.responses)
    /\ resp.body[1].input_tokens > 0
    /\ resp.body[1].output_tokens = 0

(***************************************************************************)
(* Detail lookups of ids that match no row                                 *)
(***************************************************************************)
\* No row of the table has the id; an absent table has no rows.
NoRow(table, id) ==
    \/ table \notin table_names(db)
    \/ \A i \in 1..Len(db[table]) : db[table][i].id # id

\* C13: a detail lookup, of the API or of the views, for an id that matches
\* no row is answered 404, in every database state, the one without the
\* looked-up table included; never an object and never another error.
C13_UnknownIdIsNotFound ==
    /\ (/\ req.op \in {"get_response", "view_response"}
        /\ NoRow("responses", req.response_id)) => resp.status = "404"
    /\ (/\ req.op \in {"get_conversation", "view_conversation"}
        /\ NoRow("conversations", req.conversation_id)) => resp.status = "404"

\* A response looked up in a database without the responses table.
C13_Witness ==
    /\ req.op = "view_response"
    /\ "responses" \notin table_names(db)
    /\ "tool_calls" \in table_names(db)
    /\ resp.status = "404"

(***************************************************************************)
(* Attachment entries                                                      *)
(***************************************************************************)
\* The entries carry no content and come in ascending order of `order`.
WithoutContentInOrder(entries) ==
    /\ \A i \in 1..Len(entries) : "content" \notin DOMAIN entries[i]
    /\ \A i, j \in 1..Len(entries) :
          i < j => entries[i].order <= entries[j].order

\* C14: no attachment entry the API attachment listing returns or the
\* response detail view is given contains the content of the attachment, and
\* the entries come in the order of the `order` of their links.
C14_AttachmentsWithoutContentInOrder ==
    /\ (req.op = "get_response_attachments" /\ resp.status = "ok") =>
          WithoutContentInOrder(resp.body)
    /\ (req.op = "view_response" /\ resp.status = "ok") =>
          WithoutContentInOrder(resp.body.attachments)

\* Two attachments with content, linked in descending order, are listed.
C14_Witness ==
    /\ req.op = "get_response_attachments"
    /\ resp.status = "ok"
    /\ Len(resp.body) = 2
    /\ resp.body[1].order < resp.body[2].order
    /\ \A i \in 1..Len(db.attachments) : db.attachments[i].content # NULLSTR
    /\ db.prompt_attachments[1].order > db.prompt_attachments[2].order


(***************************************************************************)
(* Startup: config.py, database.py Database.validate, __main__.py main,    *)
(* main.py create_app and lifespan.                                        *)
(*                                                                         *)
(* os is the operating system around the program: os.environ the           *)
(* environment variables, os.files the file at each path.  proc is the     *)
(* server process.  A path is the sequence of its components, the empty    *)
(* sequence standing for the empty string and for None; a file is absent,  *)
(* something SQLite cannot read (a directory, a text file), or an SQLite   *)
(* database with its set of tables.                                        *)
(***************************************************************************)
NoPath == <<>>
Unset  == ""

Absent         == [kind |-> "absent", tables |-> {}]
NotSqlite      == [kind |-> "not_sqlite", tables |-> {}]
Sqlite(tables) == [kind |-> "sqlite", tables |-> tables]

\* config.py: Settings.host, Settings.port
DefaultHost == "127.0.0.1"
DefaultPort == 8778

\* __main__.py: the defaults of --host and --port
OptionDefaultHost == "127.0.0.1"
OptionDefaultPort == 8778

\* int() of a string of decimal digits
DigitValue(c) ==
    CHOOSE n \in 0..9 : <<"0", "1", "2", "3", "4", "5", "6", "7", "8", "9">>[n + 1] = c

RECURSIVE ParseInt(_)
ParseInt(digits) ==
    IF digits = <<>> THEN 0
    ELSE 10 * ParseInt(SubSeq(digits, 1, Len(digits) - 1))
         + DigitValue(digits[Len(digits)])

get_default_db_path(environ) ==
    LET base_path == IF environ.LLM_USER_PATH # NoPath
                     THEN environ.LLM_USER_PATH
                     ELSE <<"home", ".config", "io.datasette.llm">>
    IN  Append(base_path, "logs.db")

\* settings = Settings(): the fields from the OBSERVABILITY_ variables, else
\* their defaults, and the computed path for an empty db_path
Settings(environ) ==
    [db_path |-> IF environ.OBSERVABILITY_DB_PATH = NoPath
                 THEN get_default_db_path(environ)
                 ELSE environ.OBSERVABILITY_DB_PATH,
     host |-> IF environ.OBSERVABILITY_HOST = Unset
              THEN DefaultHost ELSE environ.OBSERVABILITY_HOST,
     port |-> IF environ.OBSERVABILITY_PORT = <<>>
              THEN DefaultPort ELSE ParseInt(environ.OBSERVABILITY_PORT)]

\* The errors of database.py, subclasses of its DatabaseError.
DatabaseErrors == {"DatabaseNotFoundError", "InvalidDatabaseError"}

\* Database.validate: what it raises, or "returned".  sqlite3 raises its
\* own DatabaseError (OperationalError for a directory) on a file that is
\* not a database, when it is opened or when table_names() reads it.
validate(files, db_path) ==
    IF files[db_path].kind = "absent" THEN "DatabaseNotFoundError"
    ELSE IF files[db_path].kind = "not_sqlite" THEN "sqlite3.DatabaseError"
    ELSE IF "_llm_migrations" \notin files[db_path].tables
    THEN "InvalidDatabaseError"
    ELSE "returned"

\* sqlite_utils.Database(path), that is sqlite3.connect(path): the files
\* once the connection is open.  SQLite opens the file for reading and
\* writing and creates it, empty, when there is none.
sqlite3_connect(files, path) ==
    [files EXCEPT ![path] = IF @.kind = "absent" THEN Sqlite({}) ELSE @]

\* Mutation: the connection opened before the file is looked for.
FilesAfterValidate_ConnectFirst(files, db_path) ==
    sqlite3_connect(files, db_path)

\* The files once validate has run: it connects only after path.exists(),
\* and table_names() is a SELECT on sqlite_master.
FilesAfterValidate(files, db_path) ==
    IF files[db_path].kind = "absent" THEN files
    ELSE sqlite3_connect(files, db_path)

\* The process before it runs anything: config.py has been imported.
NewProcess(environ) ==
    [pc |-> "none", launch |-> "none", options |-> {}, reload |-> FALSE,
     settings |-> Settings(environ),
     run |-> [host |-> Unset, port |-> 0],
     app_db |-> NoPath, connection |-> NoPath,
     last_validate |-> [db_path |-> NoPath, outcome |-> "none"],
     cli_validated |-> NoPath, app_validated |-> NoPath,
     error |-> ""]

\* main(db_path, host, port, reload) up to the call of uvicorn.run: a
\* DatabaseError becomes a ClickException, any other exception ends the
\* command as it is.
main(p, o, db_path_option, host, port, reload) ==
    LET db_path == IF db_path_option = NoPath
                   THEN get_default_db_path(o.environ)
                   ELSE db_path_option
        outcome == validate(o.files, db_path)
    IN  [p EXCEPT
            !.launch = "cli", !.reload = reload,
            !.settings = [db_path |-> db_path, host |-> host, port |-> port],
            !.run = [host |-> host, port |-> port],
            !.last_validate = [db_path |-> db_path, outcome |-> outcome],
            !.cli_validated = IF outcome = "returned" THEN db_path ELSE NoPath,
            !.error = IF outcome = "returned" THEN ""
                      ELSE IF outcome \in DatabaseErrors THEN "ClickException"
                      ELSE outcome,
            !.pc = IF outcome = "returned" THEN "run" ELSE "exited"]

\* uvicorn.run("llm_observability.main:app", host, port, reload): the app is
\* imported by the process that serves, which with reload is a new process
\* that imports config.py again.
uvicorn_run(p, o) ==
    [p EXCEPT !.settings = IF p.reload THEN Settings(o.environ) ELSE @,
              !.pc = "startup"]

\* create_app(db_path), called by an ASGI server importing main.py (without
\* argument) or by a program that embeds the application.
create_app(p, db_path) ==
    [p EXCEPT !.launch = "app",
              !.settings.db_path = IF db_path # NoPath THEN db_path ELSE @,
              !.pc = "startup"]

\* Mutation: the lifespan without the validation.
lifespan_Unvalidated(p, o) ==
    [p EXCEPT !.app_db = p.settings.db_path, !.pc = "serving"]

\* lifespan up to its yield: any exception of validate aborts the startup.
lifespan(p, o) ==
    LET db_path == p.settings.db_path
        outcome == validate(o.files, db_path)
    IN  [p EXCEPT
            !.app_db = db_path,
            !.last_validate = [db_path |-> db_path, outcome |-> outcome],
            !.app_validated = IF outcome = "returned" THEN db_path ELSE NoPath,
            !.error = IF outcome = "returned" THEN "" ELSE outcome,
            !.pc = IF outcome = "returned" THEN "serving" ELSE "exited"]

\* Database.db of app.state.db: the connection requests read from.
database_db(p) ==
    [p EXCEPT !.connection = IF @ = NoPath THEN p.app_db ELSE @]

\* lifespan after its yield: app.state.db.close()
shutdown(p) == [p EXCEPT !.connection = NoPath, !.pc = "exited"]

(***************************************************************************)
(* The startups explored                                                   *)
(***************************************************************************)
CliPath == <<"cli.db">>
EnvPath == <<"env.db">>
UserDir == <<"user">>
CliHost == "10.0.0.1"
EnvHost == "0.0.0.0"
EnvPort == <<"9", "0", "0", "0">>

Environs ==
    [OBSERVABILITY_DB_PATH : {NoPath, EnvPath},
     OBSERVABILITY_HOST : {Unset, EnvHost},
     OBSERVABILITY_PORT : {<<>>, EnvPort},
     LLM_USER_PATH : {NoPath, UserDir}]

DbPaths ==
    {CliPath, EnvPath} \cup {get_default_db_path(e) : e \in Environs}

FileStates ==
    {Absent, NotSqlite, Sqlite({"responses"}),
     Sqlite({"_llm_migrations", "responses"})}

InitStartup ==
    /\ db = EmptyDb
    /\ req = NoRequest
    /\ resp = NoResponse
    /\ os \in [environ : Environs, files : [DbPaths -> FileStates]]
    /\ proc = NewProcess(os.environ)

\* The command line: llm-observability [--db ..] [--host ..] [--port ..]
\* [--reload]; an option left out has its default.
Main ==
    /\ proc.pc = "none"
    /\ \E options \in SUBSET {"db", "host", "port"}, reload \in BOOLEAN :
          proc' = [main(proc, os,
                        IF "db" \in options THEN CliPath ELSE NoPath,
                        IF "host" \in options THEN CliHost
                        ELSE OptionDefaultHost,
                        IF "port" \in options THEN 8000
                        ELSE OptionDefaultPort,
                        reload)
                   EXCEPT !.options = options]
    /\ os' = [os EXCEPT !.files =
                 FilesAfterValidate(@, proc'.last_validate.db_path)]
    /\ UNCHANGED <<db, req, resp>>

UvicornRun ==
    /\ proc.pc = "run"
    /\ proc' = uvicorn_run(proc, os)
    /\ UNCHANGED <<db, req, resp, os>>

CreateApp ==
    /\ proc.pc = "none"
    /\ \E db_path \in {NoPath, CliPath} :
          proc' = [create_app(proc, db_path)
                   EXCEPT !.options = IF db_path # NoPath THEN {"db"} ELSE {}]
    /\ UNCHANGED <<db, req, resp, os>>

Lifespan ==
    /\ proc.pc = "startup"
    /\ proc' = lifespan(proc, os)
    /\ os' = [os EXCEPT !.files = FilesAfterValidate(@, proc'.app_db)]
    /\ UNCHANGED <<db, req, resp>>

\* The first request that reads the database.
DatabaseDb ==
    /\ proc.pc = "serving"
    /\ proc.connection = NoPath
    /\ proc' = database_db(proc)
    /\ os' = [os EXCEPT !.files = sqlite3_connect(@, proc'.connection)]
    /\ UNCHANGED <<db, req, resp>>

Shutdown ==
    /\ proc.pc = "serving"
    /\ proc' = shutdown(proc)
    /\ UNCHANGED <<db, req, resp, os>>

NextStartup ==
    \/ Main
    \/ UvicornRun
    \/ CreateApp
    \/ Lifespan
    \/ DatabaseDb
    \/ Shutdown

SpecStartup == InitStartup /\ [][NextStartup]_vars

\* C15: Database.validate raises DatabaseNotFoundError exactly when there is
\* no file at db_path, InvalidDatabaseError exactly when there is one that
\* has no _llm_migrations table, and returns otherwise; the check for the
\* file comes first.
C15_ValidateOutcomes ==
    LET v == proc.last_validate
    IN  v.db_path # NoPath =>
           LET exists == os.files[v.db_path].kind # "absent"
               marked == "_llm_migrations" \in os.files[v.db_path].tables
           IN  /\ v.outcome = "DatabaseNotFoundError" <=> ~exists
               /\ v.outcome = "InvalidDatabaseError" <=> exists /\ ~marked
               /\ v.outcome = "returned" <=> exists /\ marked

\* C16: the server serves only after the validation of the database it
\* serves has succeeded: started from the command line, only after the
\* validation of main returned too; the requests read the database that
\* was validated, which exists and has the _llm_migrations table.
C16_ServesOnlyValidated ==
    proc.pc = "serving" =>
       /\ proc.app_db # NoPath
       /\ proc.app_validated = proc.app_db
       /\ os.files[proc.app_db].kind = "sqlite"
       /\ "_llm_migrations" \in os.files[proc.app_db].tables
       /\ proc.launch = "cli" => proc.cli_validated # NoPath
       /\ proc.connection \in {NoPath, proc.app_validated}

\* A server started from the command line reads the validated database.
C16_Witness ==
    /\ proc.pc = "serving"
    /\ proc.launch = "cli"
    /\ proc.connection = proc.app_validated
    /\ \E path \in DbPaths : os.files[path].kind # "sqlite"

\* The value the precedence override > environment > default gives.
Resolved(override, environment, default) ==
    IF override # <<>> THEN override[1]
    ELSE IF environment # <<>> THEN environment[1]
    ELSE default

ResolvedDbPath ==
    Resolved(IF "db" \in proc.options THEN <<CliPath>> ELSE <<>>,
             IF os.environ.OBSERVABILITY_DB_PATH # NoPath
             THEN <<os.environ.OBSERVABILITY_DB_PATH>> ELSE <<>>,
             get_default_db_path(os.environ))

ResolvedHost ==
    Resolved(IF "host" \in proc.options THEN <<CliHost>> ELSE <<>>,
             IF os.environ.OBSERVABILITY_HOST # Unset
             THEN <<os.environ.OBSERVABILITY_HOST>> ELSE <<>>,
             "127.0.0.1")

ResolvedPort ==
    Resolved(IF "port" \in proc.options THEN <<8000>> ELSE <<>>,
             IF os.environ.OBSERVABILITY_PORT # <<>> THEN <<9000>> ELSE <<>>,
             8778)

\* C17: the database path, the host and the port in effect are the explicit
\* override if one is given, else the value of the environment variable if
\* it is set, else the default: this is the path every validation is of and
\* the server reads, and the host and port the command line binds.
C17_OverrideEnvironmentDefault ==
    /\ proc.last_validate.db_path # NoPath =>
          proc.last_validate.db_path = ResolvedDbPath
    /\ proc.pc = "serving" => proc.app_db = ResolvedDbPath
    /\ proc.launch = "cli" /\ proc.pc \in {"startup", "serving"} =>
          proc.run = [host |-> ResolvedHost, port |-> ResolvedPort]

(***************************************************************************)
(* The SQL text of the statements of a search.  A text is a sequence of    *)
(* pieces: the literal parts of the source as strings, a spliced value as  *)
(* its characters.                                                         *)
(***************************************************************************)
\* count_query of the indexed search, an f-string
FtsCountQuery(safe_query) ==
    <<"SELECT COUNT(*) FROM responses_fts WHERE responses_fts MATCH ",
      "'", "\"">> \o safe_query \o <<"\"", "'">>

\* search_query of the indexed search, an f-string
FtsSearchQuery(safe_query) ==
    <<"SELECT r.id, r.model, r.prompt, r.response, r.datetime_utc, r.conversation_id FROM responses r JOIN responses_fts fts ON r.rowid = fts.rowid WHERE responses_fts MATCH ",
      "'", "\"">> \o safe_query
    \o <<"\"", "'",
         " ORDER BY r.datetime_utc DESC LIMIT :limit OFFSET :offset">>

\* count_query and search_query of the fallback search, with :pattern bound
LikeCountQuery ==
    <<"SELECT COUNT(*) FROM responses WHERE prompt LIKE :pattern ESCAPE '\\' OR response LIKE :pattern ESCAPE '\\'">>

LikeSearchQuery ==
    <<"SELECT id, model, prompt, response, datetime_utc, conversation_id FROM responses WHERE prompt LIKE :pattern ESCAPE '\\' OR response LIKE :pattern ESCAPE '\\' ORDER BY datetime_utc DESC LIMIT :limit OFFSET :offset">>

\* The statements an attempt of a search for q hands to db.execute, each
\* with the place it is built at; the indexed attempt does not reach its
\* second statement when the first raises.
Executed(attempt, q) ==
    IF attempt = "fts"
    THEN {[site |-> "fts count_query",
           text |-> FtsCountQuery(FtsSafeQuery(q))]}
         \cup (IF MatchLiteralOk(FtsSafeQuery(q))
               THEN {[site |-> "fts search_query",
                      text |-> FtsSearchQuery(FtsSafeQuery(q))]}
               ELSE {})
    ELSE {[site |-> "like count_query", text |-> LikeCountQuery],
          [site |-> "like search_query", text |-> LikeSearchQuery]}

\* The statements of all the attempts made for q.
Statements(attempts, q) ==
    UNION {Executed(attempts[i], q) : i \in 1..Len(attempts)}

\* The answer to the request of the state with q2 in place of its q.
AnswerFor(q2) ==
    IF req.op = "search" THEN search(db, q2, req.limit, req.offset)
    ELSE search_page(db, q2, req.page, req.limit)

\* C18: the text of a statement does not depend on the values the caller
\* supplies: a search request and the request that differs from it in q
\* only execute, at each place that builds a statement, the same SQL text.
C18_SqlTextIndependentOfValues ==
    (req.op \in {"search", "search_page"} /\ req.q # <<>>) =>
       \A q2 \in SearchQueries :
          \A s \in Statements(resp.attempts, req.q),
             t \in Statements(AnswerFor(q2).attempts, q2) :
             s.site = t.site => s.text = t.text

(***************************************************************************)
(* The fallback search and literal substrings                              *)
(***************************************************************************)
\* The value is a text that contains q, letter case aside.
ContainsLiteral(val, q) ==
    val.k = "text" /\ Find(Lower(val.v), Lower(q)) # 0 - 1

\* The responses whose prompt or response contains q.
LiteralMatches(q) ==
    {i \in 1..Len(db.responses) :
        \/ ContainsLiteral(db.responses[i].prompt, q)
        \/ ContainsLiteral(db.responses[i].response, q)}

\* The request was answered by the fallback search.
AnsweredByFallback ==
    /\ req.op \in {"search", "search_page"}
    /\ resp.status = "ok"
    /\ resp.attempts # <<>>
    /\ resp.attempts[Len(resp.attempts)] = "like"

NoBlobs ==
    \A i \in 1..Len(db.responses) :
       db.responses[i].prompt.k # "blob" /\ db.responses[i].response.k # "blob"

\* C19: for every query, one of `%`, `_` or `\` included, the fallback
\* search matches exactly the responses whose prompt or response contains
\* the query as a literal substring, letter case aside: as many as it
\* counts, and every entry it returns is one of them.
C19_FallbackMatchesLiteralSubstring ==
    (AnsweredByFallback /\ NoBlobs) =>
       /\ resp.body.total = Cardinality(LiteralMatches(req.q))
       /\ req.op = "search" =>
             \A j \in 1..Len(resp.body.results) :
                \E i \in LiteralMatches(req.q) :
                   db.responses[i].id = resp.body.results[j].id

(***************************************************************************)
(* The payload of the list endpoints                                       *)
(***************************************************************************)
ListEndpoints ==
    {"list_responses", "list_conversations", "list_tools", "get_tool_calls",
     "get_tool_results", "search"}

\* C20: the payload of every JSON list endpoint has the fields items,
\* total, limit and offset, also when the endpoint returns early because its
\* table is missing.
C20_ListPayloadFields ==
    (req.op \in ListEndpoints /\ resp.status = "ok") =>
       {"items", "total", "limit", "offset"} \subseteq DOMAIN resp.body

(***************************************************************************)
(* views/responses.py: list_responses                                      *)
(***************************************************************************)
\* SELECT DISTINCT model FROM responses ORDER BY model, the falsy ones dropped
ViewModels(d) ==
    SelectSeq(ModelOrder,
              LAMBDA m : /\ m # NULLSTR
                         /\ \E i \in 1..Len(d.responses) :
                               d.responses[i].model = m)

view_list_responses(d, page, limit, model) ==
    IF "responses" \notin table_names(d)
    THEN Ok([responses |-> <<>>, total |-> 0, page |-> page, limit |-> limit,
             total_pages |-> 0, models |-> <<>>, selected_model |-> model])
    ELSE LET where_clauses == ResponseClauses(model, "", NODATE, NODATE)
             params == ResponseParams(model, "", NODATE, NODATE)
             offset == (page - 1) * limit
             total  == ResponsesTotal(d, where_clauses, params)
         IN  Ok([responses |->
                    ResponsesPage(d, where_clauses, params, limit, offset),
                 total |-> total, page |-> page, limit |-> limit,
                 total_pages |-> ListPages(total, limit),
                 models |-> ViewModels(d), selected_model |-> model])

(***************************************************************************)
(* The HTML list views over the databases of the list and of the search    *)
(* operations.                                                             *)
(***************************************************************************)
InitViews ==
    /\ db \in {EmptyDb} \cup ResponsesDbs \cup ConversationsDbs \cup SearchDbs
    /\ req = NoRequest
    /\ resp = NoResponse
    /\ AlreadyServing

\* GET /responses?page=..&limit=..&model=..
ViewListResponses ==
    /\ Idle
    /\ \E page \in Pages, limit \in Limits, model \in {"", "m1", "m2"} :
          /\ req' = [op |-> "view_list_responses", page |-> page,
                     limit |-> limit, model |-> model]
          /\ resp' = view_list_responses(db, page, limit, model)
    /\ UNCHANGED <<db, os, proc>>

NextViews ==
    \/ ViewListResponses
    \/ ViewListConversations
    \/ SearchPage
    \/ Respond

SpecViews == InitViews /\ [][NextViews]_vars

\* The list a view renders.
Rendered ==
    CASE req.op = "view_list_responses"     -> resp.body.responses
      [] req.op = "view_list_conversations" -> resp.body.conversations
      [] req.op = "search_page"             -> resp.body.results

\* The least number of pages of `limit` entries that hold `total` entries.
Ceiling(total, limit) ==
    CHOOSE n \in 0..total : n * limit >= total /\ (n = 0 \/ (n - 1) * limit < total)

\* C21: every HTML list view reports total_pages = ceil(total / limit), 0
\* for a total of 0, and queries at the offset (page - 1) * limit: a page in
\* 1..total_pages shows the entries from that offset on, at least one and
\* at most limit, and page total_pages + 1 shows none.
C21_PagesOfTheViews ==
    (/\ req.op \in {"view_list_responses", "view_list_conversations",
                    "search_page"}
     /\ resp.status = "ok") =>
        /\ resp.body.total_pages = Ceiling(resp.body.total, req.limit)
        /\ req.page <= resp.body.total_pages =>
              Len(Rendered) = Min(req.limit,
                                  resp.body.total - (req.page - 1) * req.limit)
        /\ req.page = resp.body.total_pages + 1 => Rendered = <<>>

(***************************************************************************)
(* Default ordering of the list operations.                                *)
(***************************************************************************)
\* items is in descending order of key, the entries whose key is NULL last.
Descending(items, key) ==
    \A i, j \in 1..Len(items) :
        i < j => \/ items[j][key] = NULLINT
                 \/ /\ items[i][key] # NULLINT
                    /\ items[i][key] >= items[j][key]

\* C22: list_responses answers in descending datetime; list_conversations in
\* descending datetime of the most recent response of each conversation, the
\* conversations without a response datetime last; get_tool_calls and
\* get_tool_results in descending datetime of the related response.
C22_DefaultOrdering ==
    /\ req.op = "list_responses" => Descending(resp.body.items, "datetime_utc")
    /\ (req.op = "list_conversations" /\ resp.status = "ok") =>
           Descending(resp.body.items, "last_response")
    /\ (req.op \in {"get_tool_calls", "get_tool_results"} /\ resp.status = "ok") =>
           Descending(resp.body.items, "datetime_utc")

\* A conversation with a response is listed before one without, although the
\* table holds them the other way round.
C22_Witness ==
    /\ req.op = "list_conversations"
    /\ resp.status = "ok"
    /\ Len(resp.body.items) >= 2
    /\ resp.body.items[1].last_response # NULLINT
    /\ resp.body.items[2].last_response = NULLINT
    /\ db.conversations[1].id = resp.body.items[2].id

(***************************************************************************)
(* The time series.                                                        *)
(***************************************************************************)
TimeSeriesOps == {"get_token_usage_over_time", "get_responses_over_time"}

\* resp holds one point for each distinct key of rows, the keys strictly
\* ascending, and the value of a point covers the rows of its key: their
\* number, or the input and output tokens they hold.
PointsPartition(rows) ==
    LET Key(r) == Strftime(req.granularity, r.datetime_utc)
        Of(key) == SelectSeq(rows, LAMBDA r : Key(r) = key)
        values == [i \in 1..Len(resp.body) |-> resp.body[i].value]
    IN  /\ resp.status = "ok"
        /\ \A i, j \in 1..Len(resp.body) :
              i < j => resp.body[i].date < resp.body[j].date
        /\ {resp.body[i].date : i \in 1..Len(resp.body)}
              = {Key(rows[i]) : i \in 1..Len(rows)} \ {NULLINT}
        /\ req.op = "get_responses_over_time" =>
              /\ \A i \in 1..Len(resp.body) :
                    resp.body[i].value = Len(Of(resp.body[i].date))
              /\ SumSeq(values) = Len(rows)
        /\ req.op = "get_token_usage_over_time" =>
              /\ \A i \in 1..Len(resp.body) :
                    resp.body[i].value =
                       TokensOf(Of(resp.body[i].date), "input_tokens")
                       + TokensOf(Of(resp.body[i].date), "output_tokens")
              /\ SumSeq(values) = TokensOf(rows, "input_tokens")
                                  + TokensOf(rows, "output_tokens")

\* C23 as stated: for each granularity, the time series leave out the rows
\* without a timestamp, hold one point per distinct bucket key in strictly
\* ascending order of the key, and their values partition the filtered rows
\* that have a timestamp: the values of responses-over-time add up to the
\* number of those rows, the values of tokens-over-time to their input and
\* output tokens.
C23_PointsPartitionTimestamped ==
    (req.op \in TimeSeriesOps /\ "responses" \in table_names(db)) =>
        PointsPartition(SelectSeq(RowsInRange,
                                  LAMBDA r : r.datetime_utc # NULLINT))

\* C23, amended: the same over the filtered rows whose timestamp is not
\* null and is one that strftime can parse; a row whose timestamp it cannot
\* parse is in no point.
C23_PointsPartitionParseable ==
    (req.op \in TimeSeriesOps /\ "responses" \in table_names(db)) =>
        PointsPartition(SelectSeq(RowsInRange,
            LAMBDA r : r.datetime_utc \notin {NULLINT, Unparseable}))

\* Two responses dated in different days of one week make one point of
\* the weekly series, in a request that filters by date.
C23_Witness ==
    /\ req.op \in TimeSeriesOps
    /\ req.granularity = "week"
    /\ req.start_date # NODATE
    /\ Len(resp.body) = 1
    /\ Len(RowsInRange) = 2
    /\ \A i \in 1..2 : RowsInRange[i].datetime_utc \notin {NULLINT, Unparseable}
    /\ DayOf(RowsInRange[1].datetime_utc) # DayOf(RowsInRange[2].datetime_utc)

(***************************************************************************)
(* The application reads only.                                             *)
(***************************************************************************)
\* C24: no step of the startup, of the serving of requests or of the
\* shutdown creates, modifies or deletes a database file, a table or a row:
\* whatever the command line, the environment and the files are, every
\* file is after the step what it was before, and so are the rows.
C24_ReadOnly == [][os'.files = os.files /\ db' = db]_vars

\* The application serves a validated database through an open connection.
C24_Witness ==
    /\ proc.pc = "serving"
    /\ proc.connection # NoPath
    /\ os.files[proc.connection].kind = "sqlite"
    /\ \E path \in DOMAIN os.files : os.files[path].kind = "absent"

(***************************************************************************)
(* Failures of queries, and the server after them.  The handlers run in a  *)
(* server that answers every request it has taken: Respond is weakly fair. *)
(* The databases are those of every combination of tables and the search   *)
(* databases of at most one response, a BLOB among them.                   *)
(***************************************************************************)
InitServing ==
    /\ db \in TablesDbs \cup {d \in SearchDbs : Len(d.responses) <= 1}
    /\ req = NoRequest
    /\ resp = NoResponse
    /\ AlreadyServing

SpecServing == InitServing /\ [][NextTables]_vars /\ WF_vars(Respond)

SearchOps == {"search", "search_page"}

\* The attempts a search may make: none, one of the two, or the indexed
\* attempt and then the fallback.
AttemptsAllowed == {<<>>, <<"fts">>, <<"like">>, <<"fts", "like">>}

\* The fallback of the search in req ran and raised.
FallbackFailed ==
    /\ req.op \in SearchOps
    /\ Len(resp.attempts) > 0
    /\ resp.attempts[Len(resp.attempts)] = "like"
    /\ IF req.op = "search"
       THEN _search_like(db, req.q, req.limit, req.offset).status = "error"
       ELSE ViewLikeSearch(db, req.q, req.page, req.limit,
                           (req.page - 1) * req.limit, <<>>).status = "error"

\* The request in req joins the responses to the rows of a table that
\* exists, in a database without a responses table: its query fails.
JoinOnMissingResponses ==
    /\ "responses" \notin table_names(db)
    /\ \/ /\ req.op \in {"list_conversations", "view_list_conversations"}
          /\ "conversations" \in table_names(db)
       \/ /\ req.op = "get_tool_calls"
          /\ {"tools", "tool_calls"} \subseteq table_names(db)
          /\ \E i \in 1..Len(db.tools) : db.tools[i].id = req.tool_id
       \/ /\ req.op = "get_tool_results"
          /\ {"tools", "tool_results"} \subseteq table_names(db)
          /\ \E i \in 1..Len(db.tools) : db.tools[i].id = req.tool_id

\* C25: a search makes at most one indexed attempt and after it at most one
\* fallback attempt, and repeats nothing; when the fallback fails, or the
\* query of another operation fails, the caller is answered an error; and
\* after an error the process is still serving and comes to take the next
\* request.
C25_OneAttemptEachThenError ==
    /\ [](req.op \in SearchOps => resp.attempts \in AttemptsAllowed)
    /\ [](FallbackFailed \/ JoinOnMissingResponses => resp.status = "error")
    /\ [](resp.status = "error" => proc.pc = "serving")
    /\ (resp.status = "error") ~> (Idle /\ proc.pc = "serving")

\* Both attempts of a search have failed and the caller has the error.
C25_Witness ==
    /\ req.op \in SearchOps
    /\ resp.attempts = <<"fts", "like">>
    /\ FallbackFailed
    /\ resp.status = "error"

(***************************************************************************)
(* database.py: one Database object and the connections it opens.          *)
(*                                                                         *)
(* Here proc is the object and the interpreter around it: proc._db is the  *)
(* connection the object holds (0 for None), proc.open the connections     *)
(* that are open, proc.garbage those of them nothing refers to any more,   *)
(* proc.opened the number of connections opened so far (the connections    *)
(* are numbered as they are opened) and proc.last the method called last.  *)
(* A connection nothing refers to stays open until the garbage collector   *)
(* finalises it: a sqlite3.Connection is part of a reference cycle, so it  *)
(* is not closed when the last name for it goes away.  The file at the     *)
(* path is a database or is absent.                                        *)
(***************************************************************************)
MaxConnections == 4

NewDatabase(db_path) ==
    [pc |-> "database", db_path |-> db_path, _db |-> 0, open |-> {},
     garbage |-> {}, opened |-> 0, last |-> "none", outcome |-> "none"]

\* Database.validate(): the connection of its local variable db is not
\* closed, and nothing refers to it once validate has returned or raised.
Database_validate(p, files) ==
    LET outcome == validate(files, p.db_path)
        c == p.opened + 1
    IN  IF outcome = "DatabaseNotFoundError"
        THEN [p EXCEPT !.last = "validate", !.outcome = outcome]
        ELSE [p EXCEPT !.opened = c, !.open = @ \cup {c},
                       !.garbage = @ \cup {c},
                       !.last = "validate", !.outcome = outcome]

\* Database.db: if self._db is None: self._db = sqlite_utils.Database(..)
Database_db(p) ==
    IF p._db = 0
    THEN [p EXCEPT !._db = p.opened + 1, !.opened = @ + 1,
                   !.open = @ \cup {p.opened + 1},
                   !.last = "db", !.outcome = "returned"]
    ELSE [p EXCEPT !.last = "db", !.outcome = "returned"]

\* Database.close(): if self._db: self._db.close(); self._db = None
Database_close(p) ==
    IF p._db # 0
    THEN [p EXCEPT !.open = @ \ {p._db}, !._db = 0,
                   !.last = "close", !.outcome = "returned"]
    ELSE [p EXCEPT !.last = "close", !.outcome = "returned"]

\* The garbage collector finalises a connection nothing refers to, which
\* closes it.
collect(p, c) == [p EXCEPT !.open = @ \ {c}, !.garbage = @ \ {c}]

InitDatabase ==
    /\ db = EmptyDb
    /\ req = NoRequest
    /\ resp = NoResponse
    /\ os \in [environ : {[OBSERVABILITY_DB_PATH |-> NoPath,
                           OBSERVABILITY_HOST |-> Unset,
                           OBSERVABILITY_PORT |-> <<>>,
                           LLM_USER_PATH |-> NoPath]},
               files : [{CliPath} -> FileStates \ {NotSqlite}]]
    /\ proc = NewDatabase(CliPath)

Validate ==
    /\ proc.pc = "database"
    /\ proc.opened < MaxConnections
    /\ proc' = Database_validate(proc, os.files)
    /\ os' = [os EXCEPT !.files = FilesAfterValidate(@, proc.db_path)]
    /\ UNCHANGED <<db, req, resp>>

Db ==
    /\ proc.pc = "database"
    /\ proc.opened < MaxConnections
    /\ proc' = Database_db(proc)
    /\ os' = [os EXCEPT !.files = sqlite3_connect(@, proc.db_path)]
    /\ UNCHANGED <<db, req, resp>>

Close ==
    /\ proc.pc = "database"
    /\ proc' = Database_close(proc)
    /\ UNCHANGED <<db, req, resp, os>>

Collect ==
    /\ proc.pc = "database"
    /\ \E c \in proc.garbage : proc' = collect(proc, c)
    /\ UNCHANGED <<db, req, resp, os>>

NextDatabase ==
    \/ Validate
    \/ Db
    \/ Close
    \/ Collect

SpecDatabase == InitDatabase /\ [][NextDatabase]_vars

\* The object holds at most one open connection, the one of _db.
HoldsAtMostOne ==
    /\ proc.open \ proc.garbage = IF proc._db = 0 THEN {} ELSE {proc._db}

\* C26: the object opens its read connection at most once while it is open
\* and holds it; when close() was the last method called, no connection the
\* object has opened is open any more, the one validate() opened included.
C26_NothingOpenAfterClose ==
    /\ HoldsAtMostOne
    /\ proc.last = "close" => proc.open = {}

\* The part of C26 that leaves the connection of validate() aside: after
\* close() the object holds no connection.
C26_NothingHeldAfterClose ==
    /\ HoldsAtMostOne
    /\ proc.last = "close" => (proc._db = 0 /\ proc.open \ proc.garbage = {})

\* close() called twice is close() called once, and an access after
\* close() opens a connection that was not open before.
C26_CloseIdempotentThenFresh ==
    [][/\ (proc.last = "close" /\ proc'.last = "close"
             /\ proc'.garbage = proc.garbage) => proc' = proc
       /\ (proc.last = "close" /\ proc'.last = "db") =>
             /\ proc'._db = proc.opened + 1
             /\ proc'._db \notin proc.open]_vars

(***************************************************************************)
(* The search view after a failed indexed attempt.                         *)
(***************************************************************************)
\* What the fallback block of the view renders when it starts from an
\* empty list.
ViewFallbackAlone ==
    ViewLikeSearch(db, req.q, req.page, req.limit,
                   (req.page - 1) * req.limit, <<>>)

\* C27: when the indexed attempt of the search view has raised, at whatever
\* point, the results rendered are the entries of the fallback and nothing
\* else, the total is the count of the fallback, and no response is
\* rendered twice.
C27_OnlyFallbackEntriesAfterFailure ==
    (/\ req.op = "search_page"
     /\ resp.attempts = <<"fts", "like">>
     /\ resp.status = "ok") =>
        /\ resp.body.results = ViewFallbackAlone.body.results
        /\ resp.body.total = ViewFallbackAlone.body.total
        /\ \A i, j \in 1..Len(resp.body.results) :
              resp.body.results[i].id = resp.body.results[j].id => i = j

\* The part of C27 that holds: the total rendered is the fallback's, and
\* the entries of the fallback are rendered, in their order, at the end.
C27_FallbackEntriesLast ==
    (/\ req.op = "search_page"
     /\ resp.attempts = <<"fts", "like">>
     /\ resp.status = "ok") =>
        LET own == ViewFallbackAlone.body.results
            n == Len(resp.body.results)
        IN  /\ resp.body.total = ViewFallbackAlone.body.total
            /\ n >= Len(own)
            /\ SubSeq(resp.body.results, n - Len(own) + 1, n) = own

(***************************************************************************)
(* The usage counts of list_tools.                                         *)
(***************************************************************************)
\* The rows of table (none when the table does not exist) that belong to
\* the tool.
RowsOfTool(table, tool_id) ==
    IF table \notin table_names(db) THEN {}
    ELSE {i \in 1..Len(db[table]) : db[table][i].tool_id = tool_id}

\* C28: whichever of tool_calls and tool_results exist, every tool that
\* list_tools returns has as call_count the number of tool_calls rows of
\* the tool, as result_count the number of its tool_results rows and as
\* error_count the number of those with an exception, an absent table
\* counting as a table without rows; error_count is at most result_count
\* and total is the number of items.
C28_ToolCountsForEveryTableCombination ==
    req.op = "list_tools" =>
        /\ resp.status = "ok"
        /\ resp.body.total = Len(resp.body.items)
        /\ \A i \in 1..Len(resp.body.items) :
              LET item == resp.body.items[i]
                  results == RowsOfTool("tool_results", item.id)
              IN  /\ item.call_count =
                        Cardinality(RowsOfTool("tool_calls", item.id))
                  /\ item.result_count = Cardinality(results)
                  /\ item.error_count =
                        Cardinality({j \in results :
                                        db.tool_results[j].exception # NULLSTR})
                  /\ item.error_count <= item.result_count

\* The counts are the claimed ones unless tool_results exists and
\* tool_calls does not.
C28_ToolCountsUnlessOnlyResults ==
    ("tool_results" \in table_names(db) => "tool_calls" \in table_names(db))
        => C28_ToolCountsForEveryTableCombination
====
